---------------------------- MODULE Spec2Model ----------------------------
(***************************************************************************)
(* Orchestration workflow of the multi-agent query pipeline                *)
(* (src/agents/orchestrator): OrchestratorAgent.run and the graph it       *)
(* drives, ResponseSynthesizer.synthesize, and the A2A envelope the        *)
(* orchestrator reads.                                                     *)
(*                                                                         *)
(* Python strings are sequences of one-character strings, so that          *)
(* len(), lower(), "in" and concatenation are computed, not assumed.       *)
(* An optional value (x | None) is the empty tuple for None and <<x>>      *)
(* for a value.                                                            *)
(***************************************************************************)
EXTENDS Integers, Sequences, FiniteSets, TLC

\* ------------------------------------------------------------- strings

RESEARCH == <<"r","e","s","e","a","r","c","h">>
EXPLAINER == <<"e","x","p","l","a","i","n","e","r">>
KNOWLEDGE == <<"k","n","o","w","l","e","d","g","e">>
RoutingFailedPrefix == <<"R","o","u","t","i","n","g"," ","f","a","i","l","e","d",":"," ">>
ErrorPrefix == <<"E","r","r","o","r",":"," ">>
SearchPrefix == <<"S","e","a","r","c","h"," ","f","o","r"," ","r","e","l","e","v","a","n","t"," ","i","n","f","o","r","m","a","t","i","o","n"," ","a","b","o","u","t",":"," ">>
ContextSeparator == <<"\n","\n","C","o","n","t","e","x","t"," ","f","r","o","m"," ","r","e","s","e","a","r","c","h",":","\n">>
StorePrefix == <<"S","t","o","r","e"," ","t","h","i","s"," ","r","e","s","e","a","r","c","h"," ","f","i","n","d","i","n","g",":","\n","Q","u","e","r","y",":"," ">>
StoreAnswerInfix == <<"\n","A","n","s","w","e","r",":"," ">>
NoInfoAnswer == <<"I"," ","c","o","u","l","d","n","'","t"," ","f","i","n","d"," ","r","e","l","e","v","a","n","t"," ","i","n","f","o","r","m","a","t","i","o","n"," ","f","o","r"," ","y","o","u","r"," ","q","u","e","r","y",".">>
NoResponseAnswer == <<"N","o"," ","r","e","s","p","o","n","s","e"," ","g","e","n","e","r","a","t","e","d",".">>
NoneStr == <<"N","o","n","e">>
NoRelevant == <<"n","o"," ","r","e","l","e","v","a","n","t">>
HeaderOpen == <<"=","=","="," ">>
HeaderClose == <<" ","=","=","=","\n">>
BlockSep == <<"\n","\n">>

None == <<>>
Some(x) == <<x>>

\* s repeated n times (a string of n characters when s is one character)
Repeat(c, n) == [i \in 1..n |-> c]

\* str.lower() on one character (ASCII letters; other characters unchanged)
LowerChar(c) ==
  CASE c = "A" -> "a" [] c = "B" -> "b" [] c = "C" -> "c" [] c = "D" -> "d"
    [] c = "E" -> "e" [] c = "F" -> "f" [] c = "G" -> "g" [] c = "H" -> "h"
    [] c = "I" -> "i" [] c = "J" -> "j" [] c = "K" -> "k" [] c = "L" -> "l"
    [] c = "M" -> "m" [] c = "N" -> "n" [] c = "O" -> "o" [] c = "P" -> "p"
    [] c = "Q" -> "q" [] c = "R" -> "r" [] c = "S" -> "s" [] c = "T" -> "t"
    [] c = "U" -> "u" [] c = "V" -> "v" [] c = "W" -> "w" [] c = "X" -> "x"
    [] c = "Y" -> "y" [] c = "Z" -> "z" [] OTHER -> c

\* str.lower()
Lower(s) == [i \in 1..Len(s) |-> LowerChar(s[i])]

\* needle in hay (Python's substring test)
Contains(hay, needle) ==
  \E i \in 0..(Len(hay) - Len(needle)) :
     SubSeq(hay, i + 1, i + Len(needle)) = needle

\* s.startswith(p)
StartsWith(s, p) == Len(s) >= Len(p) /\ SubSeq(s, 1, Len(p)) = p

\* sep.join(parts)
RECURSIVE Join(_, _)
Join(sep, parts) ==
  IF parts = <<>> THEN <<>>
  ELSE IF Len(parts) = 1 THEN parts[1]
  ELSE parts[1] \o sep \o Join(sep, Tail(parts))

\* f"{x}" of an optional string: None prints as the word None
FormatOptional(x) == IF x = None THEN NoneStr ELSE x[1]

\* ---------------------------------------------------------- JSON values
\* A JSON / Python value is tagged with its type; a dict is the list of its
\* <<key, value>> pairs in insertion order.

K_jsonrpc == <<"j","s","o","n","r","p","c">>
K_result == <<"r","e","s","u","l","t">>
K_error == <<"e","r","r","o","r">>
K_id == <<"i","d">>
K_message == <<"m","e","s","s","a","g","e">>
K_role == <<"r","o","l","e">>
K_parts == <<"p","a","r","t","s">>
K_text == <<"t","e","x","t">>
K_code == <<"c","o","d","e">>
JsonRpcVersion == <<"2",".","0">>
Assistant == <<"a","s","s","i","s","t","a","n","t">>
DefaultId == <<"1">>
PyTrue == <<"T","r","u","e">>
PyFalse == <<"F","a","l","s","e">>
CommaSp == <<","," ">>
ColonSp == <<":"," ">>

JNull == [t |-> "null"]
JStr(s) == [t |-> "str", v |-> s]
JInt(n) == [t |-> "int", v |-> n]
JBool(b) == [t |-> "bool", v |-> b]
JList(l) == [t |-> "list", v |-> l]
JDict(pairs) == [t |-> "dict", v |-> pairs]

\* Python truthiness of a value
Truthy(j) ==
  CASE j.t = "null" -> FALSE
    [] j.t = "str" -> j.v # <<>>
    [] j.t = "int" -> j.v # 0
    [] j.t = "bool" -> j.v
    [] j.t = "list" -> j.v # <<>>
    [] j.t = "dict" -> j.v # <<>>

HasKey(pairs, k) == \E i \in 1..Len(pairs) : pairs[i][1] = k

\* dict.get(k, default) on the pair list of a dict
DictGet(pairs, k, default) ==
  IF HasKey(pairs, k)
  THEN pairs[CHOOSE i \in 1..Len(pairs) : pairs[i][1] = k][2]
  ELSE default

DigitChar(d) ==
  CASE d = 0 -> "0" [] d = 1 -> "1" [] d = 2 -> "2" [] d = 3 -> "3"
    [] d = 4 -> "4" [] d = 5 -> "5" [] d = 6 -> "6" [] d = 7 -> "7"
    [] d = 8 -> "8" [] d = 9 -> "9"

\* str(n) of an int
RECURSIVE IntStr(_)
IntStr(n) ==
  IF n < 0 THEN <<"-">> \o IntStr(0 - n)
  ELSE IF n < 10 THEN <<DigitChar(n)>>
  ELSE IntStr(n \div 10) \o <<DigitChar(n % 10)>>

\* str(value): Python's repr of a parsed JSON value
RECURSIVE Repr(_)
Repr(j) ==
  CASE j.t = "null" -> NoneStr
    [] j.t = "str" -> <<"'">> \o j.v \o <<"'">>
    [] j.t = "int" -> IntStr(j.v)
    [] j.t = "bool" -> (IF j.v THEN PyTrue ELSE PyFalse)
    [] j.t = "list" ->
         <<"[">> \o Join(CommaSp, [i \in 1..Len(j.v) |-> Repr(j.v[i])]) \o <<"]">>
    [] j.t = "dict" ->
         <<"{">>
         \o Join(CommaSp, [i \in 1..Len(j.v) |->
                 <<"'">> \o j.v[i][1] \o <<"'">> \o ColonSp \o Repr(j.v[i][2])])
         \o <<"}">>

\* ---------------------------------------------------- shared/a2a_utils.py

\* a create_a2a_response that does not wrap a text into a message
create_a2a_response_unwrapped(result, request_id) ==
  JDict(<< <<K_jsonrpc, JStr(JsonRpcVersion)>>,
           <<K_result, result>>,
           <<K_id, JStr(request_id)>> >>)

create_a2a_response(result, request_id) ==
  LET wrapped ==
        IF result.t = "str"
        THEN JDict(<< <<K_message,
                        JDict(<< <<K_role, JStr(Assistant)>>,
                                 <<K_parts, JList(<<JDict(<< <<K_text, result>> >>)>>)>> >>)>> >>)
        ELSE result
  IN JDict(<< <<K_jsonrpc, JStr(JsonRpcVersion)>>,
              <<K_result, wrapped>>,
              <<K_id, JStr(request_id)>> >>)

create_a2a_error(code, message, request_id) ==
  JDict(<< <<K_jsonrpc, JStr(JsonRpcVersion)>>,
           <<K_error, JDict(<< <<K_code, JInt(code)>>, <<K_message, JStr(message)>> >>)>>,
           <<K_id, JStr(request_id)>> >>)

\* The outcome of an awaited call: it returns a value or raises an exception
\* e, kept as str(e).
Return(x) == [kind |-> "return", v |-> x]
Raise(e) == [kind |-> "raise", v |-> [str |-> e]]

\* ------------------------------------------------------------- inputs
\* The texts the environment supplies: queries, specialist contents, model
\* answers and exception texts.

Query1 == <<"q">>
Query2 == <<"H","i","?">>
Reasoning == <<"r">>
ResearchContent == <<"r","e","p","o"," ","l","i","s","t">>
ExplainerContent == <<"h","o","w","-","t","o">>
ModelAnswer == <<"m","e","r","g","e","d"," ","a","n","s","w","e","r">>
ShortHit == <<"s","t","o","r","e","d"," ","n","o","t","e">>
ShortMiss == <<"N","o"," ","r","e","l","e","v","a","n","t"," ","i","n","f","o","r","m","a","t","i","o","n"," ","f","o","u","n","d"," ","f","o","r",":"," ","q">>
MixedMiss == <<" ","N","o"," ","R","e","l","e","v","a","n","t">>
InternalErrorMsg == <<"I","n","t","e","r","n","a","l"," ","e","r","r","o","r",":"," ","b","o","o","m">>
TimeoutErr == <<"T","i","m","e","o","u","t"," ","c","o","n","n","e","c","t","i","n","g"," ","t","o"," ","a","g","e","n","t">>
StatusErr == <<"S","e","r","v","e","r"," ","e","r","r","o","r"," ","'","5","0","0"," ","I","n","t","e","r","n","a","l"," ","S","e","r","v","e","r"," ","E","r","r","o","r","'">>
ConnectErr == <<"F","a","i","l","e","d"," ","t","o"," ","c","o","n","n","e","c","t"," ","t","o"," ","a","g","e","n","t">>
NoLenErr == <<"o","b","j","e","c","t"," ","o","f"," ","t","y","p","e"," ","'","N","o","n","e","T","y","p","e","'"," ","h","a","s"," ","n","o"," ","l","e","n","(",")">>
RouterErr == <<"c","l","a","s","s","i","f","i","e","r"," ","u","n","a","v","a","i","l","a","b","l","e">>
ModelErr == <<"m","o","d","e","l"," ","u","n","a","v","a","i","l","a","b","l","e">>

\* ------------------------------------------------ orchestrator/router.py

\* x in list
InList(x, s) == \E i \in 1..Len(s) : s[i] = x

AgentType == {RESEARCH, EXPLAINER, KNOWLEDGE}

RoutingDecision(agents, reasoning, check_knowledge_first) ==
  [agents |-> agents, reasoning |-> reasoning,
   check_knowledge_first |-> check_knowledge_first]

K_agents == <<"a","g","e","n","t","s">>
K_reasoning == <<"r","e","a","s","o","n","i","n","g">>
K_check_knowledge_first == <<"c","h","e","c","k","_","k","n","o","w","l","e","d","g","e","_","f","i","r","s","t">>
DefaultReasoning == <<"D","e","f","a","u","l","t"," ","r","o","u","t","i","n","g">>
NotValidAgentType == <<"'"," ","i","s"," ","n","o","t"," ","a"," ","v","a","l","i","d"," ","A","g","e","n","t","T","y","p","e">>

\* AgentType(name): the member, or ValueError with the name in its text
AgentTypeOf(name) ==
  IF name \in AgentType THEN Return(name)
  ELSE Raise(<<"'">> \o name \o NotValidAgentType)

\* a conversion that passes over the names that are no member
RECURSIVE AgentTypes_skipping_unknown(_)
AgentTypes_skipping_unknown(names) ==
  IF names = <<>> THEN Return(<<>>)
  ELSE LET first == AgentTypeOf(Lower(Head(names).v))
           rest == AgentTypes_skipping_unknown(Tail(names))
       IN IF first.kind = "raise" THEN rest
          ELSE Return(<<first.v>> \o rest.v)

\* [AgentType(a.lower()) for a in names]: the members, or the exception of
\* the first name that is none
RECURSIVE AgentTypes(_)
AgentTypes(names) ==
  IF names = <<>> THEN Return(<<>>)
  ELSE LET first == AgentTypeOf(Lower(Head(names).v))
           rest == AgentTypes(Tail(names))
       IN IF first.kind = "raise" THEN first
          ELSE IF rest.kind = "raise" THEN rest
          ELSE Return(<<first.v>> \o rest.v)

\* a parsing that reads a missing agent list as the empty list
ParseRouting_without_default(result) ==
  LET agents == AgentTypes(DictGet(result.v, K_agents, JList(<<>>)).v)
  IN IF agents.kind = "raise" THEN agents
     ELSE Return(RoutingDecision(
            agents.v,
            DictGet(result.v, K_reasoning, JStr(DefaultReasoning)).v,
            DictGet(result.v, K_check_knowledge_first, JBool(TRUE)).v))

\* route from the parsed classifier output `result` on
ParseRouting(result) ==
  LET agents == AgentTypes(DictGet(result.v, K_agents, JList(<<JStr(RESEARCH)>>)).v)
  IN IF agents.kind = "raise" THEN agents
     ELSE Return(RoutingDecision(
            agents.v,
            DictGet(result.v, K_reasoning, JStr(DefaultReasoning)).v,
            DictGet(result.v, K_check_knowledge_first, JBool(TRUE)).v))

\* route from the classifier's outcome: its parsed JSON object, or the
\* exception of the model call or of json.loads, which passes through
route(classified) ==
  IF classified.kind = "raise" THEN classified ELSE ParseRouting(classified.v)

\* --------------------------------------------- orchestrator/synthesizer.py

AgentResponse(agent_name, content, success, error) ==
  [agent_name |-> agent_name, content |-> content,
   success |-> success, error |-> error]

SynthesizedResponse(answer, sources, agents_used) ==
  [answer |-> answer, sources |-> sources, agents_used |-> agents_used]

IsSuccess(r) == r.success

\* successful = [r for r in responses if r.success]
Successful(responses) == SelectSeq(responses, IsSuccess)

\* [r.agent_name for r in rs]
AgentNames(rs) == [i \in 1..Len(rs) |-> rs[i].agent_name]

\* synthesize answers without the model iff exactly one response succeeded
NeedsModel(responses) == Len(Successful(responses)) # 1

\* the early return naming only the successful agent as used
DirectResponse_used_is_sources(responses) ==
  SynthesizedResponse(Successful(responses)[1].content,
                      <<Successful(responses)[1].agent_name>>,
                      <<Successful(responses)[1].agent_name>>)

\* the early return taking the first response for the successful one
DirectResponse_first(responses) ==
  SynthesizedResponse(responses[1].content, <<responses[1].agent_name>>,
                      AgentNames(responses))

\* the early return of synthesize
DirectResponse(responses) ==
  SynthesizedResponse(Successful(responses)[1].content,
                      <<Successful(responses)[1].agent_name>>,
                      AgentNames(responses))

\* one block of formatted_responses
FormatResponse(r) ==
  HeaderOpen \o r.agent_name \o HeaderClose
  \o (IF r.success THEN r.content ELSE ErrorPrefix \o FormatOptional(r.error))

FormattedResponses(responses) ==
  Join(BlockSep, [i \in 1..Len(responses) |-> FormatResponse(responses[i])])

\* SYNTHESIS_PROMPT.format(query=..., agent_responses=...); the constant
\* instruction text before "User Query:" and between the two fields is elided
SynthHead == <<"U","s","e","r"," ","Q","u","e","r","y",":"," ">>
SynthMid == <<"\n","\n","A","g","e","n","t"," ","R","e","s","p","o","n","s","e","s",":","\n">>
SynthTail == <<"\n","\n","P","r","o","v","i","d","e"," ","a"," ","c","o","m","p","r","e","h","e","n","s","i","v","e"," ","a","n","s","w","e","r",":">>

SynthesisPrompt(q, responses) ==
  SynthHead \o q \o SynthMid \o FormattedResponses(responses) \o SynthTail

\* the return of synthesize naming every response as a source
ModelResponse_all_sources(answer, responses) ==
  SynthesizedResponse(answer, AgentNames(responses), AgentNames(responses))

\* the return of synthesize after the model answered
ModelResponse(answer, responses) ==
  SynthesizedResponse(answer, AgentNames(Successful(responses)),
                      AgentNames(responses))

\* --------------------------------------------- orchestrator/orchestrator.py

SufficientLength == 100

\* ROUTING_PROMPT.format(query=...), the constant text elided as above
RouteHead == <<"U","s","e","r"," ","Q","u","e","r","y",":"," ">>
RouteTail == <<"\n","\n","J","S","O","N"," ","R","e","s","p","o","n","s","e",":">>
RoutingPrompt(q) == RouteHead \o q \o RouteTail

\* The try body of _extract_content raises when a .get is applied to a value
\* that is no dict, or parts[0] is no dict.
ExtractRaises(result) ==
  \/ result.t # "dict"
  \/ LET r1 == DictGet(result.v, K_result, JDict(<<>>)) IN
     \/ r1.t # "dict"
     \/ LET r2 == DictGet(r1.v, K_message, JDict(<<>>)) IN
        \/ r2.t # "dict"
        \/ LET parts == DictGet(r2.v, K_parts, JList(<<>>)) IN
           Truthy(parts) /\ (parts.t # "list" \/ parts.v[1].t # "dict")

_extract_content(result) ==
  IF ExtractRaises(result) THEN JStr(Repr(result))
  ELSE LET parts == DictGet(DictGet(DictGet(result.v, K_result, JDict(<<>>)).v,
                                    K_message, JDict(<<>>)).v,
                            K_parts, JList(<<>>))
       IN IF Truthy(parts) THEN DictGet(parts.v[1].v, K_text, JStr(<<>>))
          ELSE JStr(<<>>)

\* truthiness of an optional string (None and "" are falsy)
OptTruthy(x) == x # None /\ x[1] # <<>>

\* _decide_next_step without its error test
_decide_next_step_ignoring_error(err, rt) ==
  IF rt # None /\ rt[1].check_knowledge_first THEN "check_knowledge"
  ELSE "call_agents"

_decide_next_step(err, rt) ==
  IF OptTruthy(err) THEN "error"
  ELSE IF rt # None /\ rt[1].check_knowledge_first THEN "check_knowledge"
  ELSE "call_agents"

\* _knowledge_sufficient with >= for >
_knowledge_sufficient_inclusive(result) ==
  IF /\ OptTruthy(result)
     /\ Len(result[1]) >= SufficientLength
     /\ ~Contains(Lower(result[1]), NoRelevant)
  THEN "sufficient"
  ELSE "need_more"

_knowledge_sufficient(result) ==
  IF /\ OptTruthy(result)
     /\ Len(result[1]) > SufficientLength
     /\ ~Contains(Lower(result[1]), NoRelevant)
  THEN "sufficient"
  ELSE "need_more"

\* _need_explainer answering yes for every routing
_need_explainer_always(rt) == "yes"

_need_explainer(rt) ==
  IF rt # None /\ InList(EXPLAINER, rt[1].agents) THEN "yes" ELSE "no"

\* _call_research without its early return
ResearchSkipped_never(rt) == FALSE

\* the early return of _call_research
ResearchSkipped(rt) == rt # None /\ ~InList(RESEARCH, rt[1].agents)

\* the edge maps of _build_graph
RouteEdge(label) ==
  CASE label = "check_knowledge" -> "check_knowledge"
    [] label = "call_agents" -> "call_research"
    [] label = "error" -> "END"

KnowledgeEdge(label) ==
  CASE label = "sufficient" -> "synthesize"
    [] label = "need_more" -> "call_research"

ResearchEdge(label) ==
  CASE label = "yes" -> "call_explainer"
    [] label = "no" -> "synthesize"

\* What the try body of a specialist call yields for the outcome of
\* send_task: the extracted content, or the text of the exception raised
\* (by send_task, or by len(content) when the text is no string).
CallContent(outcome) ==
  IF outcome.kind = "raise" THEN [kind |-> "raise", v |-> outcome.v.str]
  ELSE LET content == _extract_content(outcome.v) IN
       IF content.t = "str" THEN [kind |-> "return", v |-> content.v]
       ELSE [kind |-> "raise", v |-> NoLenErr]

\* _check_knowledge keeping the response only when it is sufficient
_check_knowledge_sufficient_only(responses, outcome) ==
  LET c == CallContent(outcome) IN
  IF c.kind = "return"
  THEN [knowledge_result |-> Some(c.v),
        agent_responses |->
          IF _knowledge_sufficient(Some(c.v)) = "sufficient"
          THEN Append(responses, AgentResponse(KNOWLEDGE, c.v, TRUE, None))
          ELSE responses]
  ELSE [knowledge_result |-> None, agent_responses |-> responses]

\* _check_knowledge recording a failed search the way _call_research does
_check_knowledge_recording_failure(responses, outcome) ==
  LET c == CallContent(outcome) IN
  IF c.kind = "return"
  THEN [knowledge_result |-> Some(c.v),
        agent_responses |-> Append(responses,
                                   AgentResponse(KNOWLEDGE, c.v, TRUE, None))]
  ELSE [knowledge_result |-> None,
        agent_responses |-> Append(responses,
                                   AgentResponse(KNOWLEDGE, <<>>, FALSE, Some(c.v)))]

\* the update returned by _check_knowledge
_check_knowledge(responses, outcome) ==
  LET c == CallContent(outcome) IN
  IF c.kind = "return"
  THEN [knowledge_result |-> Some(c.v),
        agent_responses |-> Append(responses,
                                   AgentResponse(KNOWLEDGE, c.v, TRUE, None))]
  ELSE [knowledge_result |-> None, agent_responses |-> responses]

\* the AgentResponse of a failed call left at the default success=True
SpecialistResponse_default_success(agent_name, c) ==
  IF c.kind = "return"
  THEN AgentResponse(agent_name, c.v, TRUE, None)
  ELSE AgentResponse(agent_name, <<>>, TRUE, Some(c.v))

\* the AgentResponse appended by _call_research / _call_explainer
SpecialistResponse(agent_name, c) ==
  IF c.kind = "return"
  THEN AgentResponse(agent_name, c.v, TRUE, None)
  ELSE AgentResponse(agent_name, <<>>, FALSE, Some(c.v))

\* the update returned by _call_research / _call_explainer
SpecialistUpdate(agent_name, responses, outcome) ==
  LET c == CallContent(outcome) IN
  [result |-> IF c.kind = "return" THEN Some(c.v) ELSE None,
   agent_responses |-> Append(responses, SpecialistResponse(agent_name, c))]

\* the message _call_explainer sends
ExplainerMessage(q, research) ==
  q \o ContextSeparator \o FormatOptional(research)

\* the task _check_knowledge sends
SearchMessage(q) == SearchPrefix \o q

\* the task _synthesize_response sends after synthesis
StoreMessage(q, answer) == StorePrefix \o q \o StoreAnswerInfix \o answer

\* the short circuit answering with run's fallback text
EmptySynthesis_fallback_text == SynthesizedResponse(NoResponseAnswer, <<>>, <<>>)

\* the short circuit of _synthesize_response
EmptySynthesis == SynthesizedResponse(NoInfoAnswer, <<>>, <<>>)

\* what run returns when the graph ended normally
RunResult(err, fr) ==
  IF OptTruthy(err) THEN SynthesizedResponse(ErrorPrefix \o err[1], <<>>, <<>>)
  ELSE IF fr # None THEN fr[1]
  ELSE SynthesizedResponse(NoResponseAnswer, <<>>, <<>>)

\* run answering with the bare exception text
RunExcept_without_prefix(e) == SynthesizedResponse(e, <<>>, <<>>)

\* what run returns when the graph raised
RunExcept(e) == SynthesizedResponse(ErrorPrefix \o e, <<>>, <<>>)

\* ------------------------------------------- orchestrator/a2a_server.py

K_method == <<"m","e","t","h","o","d">>
K_params == <<"p","a","r","a","m","s">>
K_metadata == <<"m","e","t","a","d","a","t","a">>
K_sources == <<"s","o","u","r","c","e","s">>
K_agents_used == <<"a","g","e","n","t","s","_","u","s","e","d">>
K_status == <<"s","t","a","t","u","s">>
K_task_id == <<"t","a","s","k","_","i","d">>
TasksSend == <<"t","a","s","k","s","/","s","e","n","d">>
TasksGet == <<"t","a","s","k","s","/","g","e","t">>
Completed == <<"c","o","m","p","l","e","t","e","d">>
MissingQueryMsg == <<"I","n","v","a","l","i","d"," ","p","a","r","a","m","s",":"," ","m","i","s","s","i","n","g"," ","q","u","e","r","y"," ","t","e","x","t">>
MethodNotFoundPrefix == <<"M","e","t","h","o","d"," ","n","o","t"," ","f","o","u","n","d",":"," ">>
InternalErrorPrefix == <<"I","n","t","e","r","n","a","l"," ","e","r","r","o","r",":"," ">>
AttributeErr == <<"'","N","o","n","e","T","y","p","e","'"," ","o","b","j","e","c","t"," ","h","a","s"," ","n","o"," ","a","t","t","r","i","b","u","t","e"," ","'","g","e","t","'">>
SubscriptErr == <<"'","i","n","t","'"," ","o","b","j","e","c","t"," ","i","s"," ","n","o","t"," ","s","u","b","s","c","r","i","p","t","a","b","l","e">>
RequestId7 == <<"7">>
OtherMethod == <<"t","a","s","k","s","/","c","a","n","c","e","l">>

INVALID_PARAMS == -32602
INTERNAL_ERROR == -32603
METHOD_NOT_FOUND == -32601

\* f"{x}" of a parsed JSON value
FormatValue(j) == IF j.t = "str" THEN j.v ELSE Repr(j)

\* The query handle_a2a_request reads out of params: the text of the first
\* part, "" when there is none; the reads raise on a value that is no dict.
RequestQuery(params) ==
  IF params.t # "dict" THEN Raise(AttributeErr)
  ELSE LET message == DictGet(params.v, K_message, JDict(<<>>)) IN
       IF message.t # "dict" THEN Raise(AttributeErr)
       ELSE LET parts == DictGet(message.v, K_parts, JList(<<>>)) IN
            IF ~Truthy(parts) THEN Return(JStr(<<>>))
            ELSE IF parts.t # "list" \/ parts.v[1].t # "dict"
                 THEN Raise(AttributeErr)
                 ELSE Return(DictGet(parts.v[1].v, K_text, JStr(<<>>)))

\* the result handle_a2a_request wraps for the response of run
RunEnvelope(result, request_id) ==
  create_a2a_response(
    JDict(<< <<K_message,
               JDict(<< <<K_role, JStr(Assistant)>>,
                        <<K_parts, JList(<<JDict(<< <<K_text, JStr(result.answer)>> >>)>>)>> >>)>>,
             <<K_metadata,
               JDict(<< <<K_sources,
                          JList([i \in 1..Len(result.sources) |-> JStr(result.sources[i])])>>,
                        <<K_agents_used,
                          JList([i \in 1..Len(result.agents_used) |->
                                   JStr(result.agents_used[i])])>> >>)>> >>),
    request_id)

\* the except branch of handle_a2a_request
InternalErrorReply(e, request_id) ==
  create_a2a_error(INTERNAL_ERROR, InternalErrorPrefix \o e, request_id)

\* What handle_a2a_request does with a request body before any await of
\* run: it replies at once ("reply"), or calls run with a query ("run").
HandleBody(body) ==
  LET method == DictGet(body.v, K_method, JStr(<<>>))
      params == DictGet(body.v, K_params, JDict(<<>>))
      request_id == DictGet(body.v, K_id, JStr(DefaultId)).v
  IN IF method = JStr(TasksSend)
     THEN LET q == RequestQuery(params) IN
          IF q.kind = "raise"
          THEN [kind |-> "reply", v |-> InternalErrorReply(q.v.str, request_id)]
          ELSE IF ~Truthy(q.v)
          THEN [kind |-> "reply",
                v |-> create_a2a_error(INVALID_PARAMS, MissingQueryMsg, request_id)]
          ELSE IF q.v.t # "str"
          THEN [kind |-> "reply", v |-> InternalErrorReply(SubscriptErr, request_id)]
          ELSE [kind |-> "run", v |-> q.v.v]
     ELSE IF method = JStr(TasksGet)
     THEN IF params.t # "dict"
          THEN [kind |-> "reply", v |-> InternalErrorReply(AttributeErr, request_id)]
          ELSE
          [kind |-> "reply",
           v |-> create_a2a_response(
                   JDict(<< <<K_status, JStr(Completed)>>,
                            <<K_task_id, DictGet(params.v, K_id, JStr(<<>>))>> >>),
                   request_id)]
     ELSE [kind |-> "reply",
           v |-> create_a2a_error(METHOD_NOT_FOUND,
                                  MethodNotFoundPrefix \o FormatValue(method),
                                  request_id)]

\* --------------------------------------------- orchestrator/streaming.py
\* An SSE event is the record of its type and of the payload members that
\* tell events apart: agent (payload.agent, payload.from of a message), to
\* (payload.to), text (content / message / name / answer), and the sources
\* and agents_used of complete.  duration and tokens are left out; non-ASCII
\* characters are written as json.dumps writes them.

ORCHESTRATOR == <<"o","r","c","h","e","s","t","r","a","t","o","r">>
USER == <<"u","s","e","r">>
ROUTER == <<"r","o","u","t","e","r">>
SYNTHESIZER == <<"s","y","n","t","h","e","s","i","z","e","r">>
QueryLabel == <<"Q","u","e","r","y",":"," ">>
Ellipsis == <<".",".",".">>
RoutingTo == <<"R","o","u","t","i","n","g"," ","t","o",":"," ">>
SearchLabel == <<"S","e","a","r","c","h",":"," ">>
ResearchLabel == <<"R","e","s","e","a","r","c","h",":"," ">>
ExplainRequest == <<"G","e","n","e","r","a","t","e"," ","e","x","p","l","a","n","a","t","i","o","n"," ","w","i","t","h"," ","c","o","d","e"," ","e","x","a","m","p","l","e","s">>
FoundPrefix == <<"F","o","u","n","d"," ">>
FoundSuffix == <<" ","r","e","s","u","l","t","s">>
WebSearch == <<"w","e","b","_","s","e","a","r","c","h">>
Context7Lookup == <<"c","o","n","t","e","x","t","7","_","l","o","o","k","u","p">>
ResearchComplete == <<"R","e","s","e","a","r","c","h"," ","c","o","m","p","l","e","t","e">>
ExplanationReady == <<"E","x","p","l","a","n","a","t","i","o","n"," ","r","e","a","d","y">>
CombiningAll == <<"C","o","m","b","i","n","i","n","g"," ","a","l","l"," ","r","e","s","p","o","n","s","e","s">>
SynthesisHeading == <<"#","#"," ","S","y","n","t","h","e","s","i","s","\n","\n">>
Analyzing == <<"*","*","A","n","a","l","y","z","i","n","g"," ","a","g","e","n","t"," ","r","e","s","p","o","n","s","e","s",".",".",".","*","*","\n">>
SourcesLabel == <<"\\","u","2","0","2","2"," ","S","o","u","r","c","e","s",":"," ">>
AgentsLabel == <<"\n","\\","u","2","0","2","2"," ","A","g","e","n","t","s",":"," ">>
QualityCheck == <<"\n","\n","*","*","Q","u","a","l","i","t","y"," ","c","h","e","c","k",":","*","*"," ","\\","u","2","7","1","3"," ","C","o","m","p","l","e","t","e","\n">>
SynthesisComplete == <<"S","y","n","t","h","e","s","i","s"," ","c","o","m","p","l","e","t","e">>
DataPrefix == <<"d","a","t","a",":"," ">>

CHUNK_LENGTH == 200
QUERY_PREVIEW == 60
SEARCH_PREVIEW == 40

Event(type, agent, to, text) ==
  [type |-> type, agent |-> agent, to |-> to, text |-> text,
   sources |-> <<>>, agents_used |-> <<>>]

\* s[:n]
Prefix(s, n) == SubSeq(s, 1, IF Len(s) < n THEN Len(s) ELSE n)

\* s.split("\n")
RECURSIVE SplitLines(_)
SplitLines(s) ==
  IF \E i \in 1..Len(s) : s[i] = "\n"
  THEN LET i == CHOOSE i \in 1..Len(s) :
                  s[i] = "\n" /\ \A j \in 1..(i - 1) : s[j] # "\n"
       IN <<SubSeq(s, 1, i - 1)>> \o SplitLines(SubSeq(s, i + 1, Len(s)))
  ELSE <<s>>

\* the loop of _split_content over the lines not yet placed
RECURSIVE SplitLoop(_, _, _, _)
SplitLoop(lines, chunks, current_chunk, max_length) ==
  IF lines = <<>>
  THEN IF current_chunk # <<>> THEN Append(chunks, current_chunk) ELSE chunks
  ELSE LET line == Head(lines) IN
       IF Len(current_chunk) + Len(line) + 1 > max_length
       THEN SplitLoop(Tail(lines),
                      IF current_chunk # <<>> THEN Append(chunks, current_chunk)
                      ELSE chunks,
                      line \o <<"\n">>, max_length)
       ELSE SplitLoop(Tail(lines), chunks,
                      current_chunk \o line \o <<"\n">>, max_length)

_split_content(content, max_length) ==
  IF Len(content) <= max_length THEN <<content>>
  ELSE LET chunks == SplitLoop(SplitLines(content), <<>>, <<>>, max_length) IN
       IF chunks # <<>> THEN chunks ELSE <<Prefix(content, max_length)>>

\* the events stream yields before it routes
StreamOpening(q) ==
  <<Event("agent_start", ORCHESTRATOR, <<>>, <<>>),
    Event("message", USER, ORCHESTRATOR,
          QueryLabel \o Prefix(q, QUERY_PREVIEW) \o Ellipsis)>>

\* the event stream yields after routing
RoutingEvent(rt) ==
  Event("message", ORCHESTRATOR, ROUTER, RoutingTo \o Join(CommaSp, rt.agents))

\* the events a sub-call yields before its send_task
SubCallOpening(agent, q) ==
  CASE agent = KNOWLEDGE ->
         <<Event("agent_start", KNOWLEDGE, <<>>, <<>>),
           Event("message", ORCHESTRATOR, KNOWLEDGE,
                 SearchLabel \o Prefix(q, SEARCH_PREVIEW) \o Ellipsis)>>
    [] agent = RESEARCH ->
         <<Event("agent_start", RESEARCH, <<>>, <<>>),
           Event("message", ORCHESTRATOR, RESEARCH,
                 ResearchLabel \o Prefix(q, SEARCH_PREVIEW) \o Ellipsis),
           Event("tool_call", RESEARCH, <<>>, WebSearch)>>
    [] agent = EXPLAINER ->
         <<Event("agent_start", EXPLAINER, <<>>, <<>>),
           Event("message", ORCHESTRATOR, EXPLAINER, ExplainRequest),
           Event("tool_call", EXPLAINER, <<>>, Context7Lookup)>>

\* the tool_result a sub-call yields once send_task returned
ToolResult(agent) ==
  CASE agent = KNOWLEDGE -> <<>>
    [] agent = RESEARCH -> <<Event("tool_result", RESEARCH, <<>>, WebSearch)>>
    [] agent = EXPLAINER -> <<Event("tool_result", EXPLAINER, <<>>, Context7Lookup)>>

\* the closing message of a sub-call
ClosingMessage(agent, chunks) ==
  CASE agent = KNOWLEDGE ->
         Event("message", KNOWLEDGE, ORCHESTRATOR,
               FoundPrefix \o IntStr(Len(chunks)) \o FoundSuffix)
    [] agent = RESEARCH ->
         Event("message", RESEARCH, ORCHESTRATOR, ResearchComplete)
    [] agent = EXPLAINER ->
         Event("message", EXPLAINER, ORCHESTRATOR, ExplanationReady)

\* The events a sub-call yields from the outcome of its send_task: the
\* chunks of the content and agent_complete, or error when send_task or the
\* handling of the content raised.  A content that is None is sent as "".
SubCallEvents(agent, outcome) ==
  IF outcome.kind = "raise"
  THEN <<Event("error", agent, <<>>, outcome.v.str)>>
  ELSE LET content == _extract_content(outcome.v) IN
       IF Truthy(content) /\ content.t # "str"
       THEN ToolResult(agent) \o <<Event("error", agent, <<>>, NoLenErr)>>
       ELSE LET text == IF content.t = "str" THEN content.v ELSE <<>>
                chunks == IF text # <<>> THEN _split_content(text, CHUNK_LENGTH)
                          ELSE <<>>
            IN ToolResult(agent)
               \o [i \in 1..Len(chunks) |->
                     Event("agent_output", agent, <<>>, chunks[i])]
               \o <<Event("agent_complete", agent, <<>>, text),
                    ClosingMessage(agent, chunks)>>

\* What stream collects from one yielded event: it re-parses the SSE text,
\* split at "data: ", so that an agent_complete whose content holds that text
\* fails to parse and is dropped, as is one without content.
Collected(event) ==
  IF /\ event.type = "agent_complete"
     /\ event.text # <<>>
     /\ ~Contains(event.text, DataPrefix)
  THEN <<AgentResponse(event.agent, event.text, TRUE, None)>>
  ELSE <<>>

\* the responses stream collects from a sub-call's events
RECURSIVE CollectAll(_)
CollectAll(events) ==
  IF events = <<>> THEN <<>>
  ELSE Collected(Head(events)) \o CollectAll(Tail(events))

\* next((r.content for r in agent_responses if r.agent_name == "research"), "")
ResearchContext(responses) ==
  IF \E i \in 1..Len(responses) : responses[i].agent_name = RESEARCH
  THEN responses[CHOOSE i \in 1..Len(responses) :
                   /\ responses[i].agent_name = RESEARCH
                   /\ \A j \in 1..(i - 1) : responses[j].agent_name # RESEARCH].content
  ELSE <<>>

\* the message stream's _call_explainer sends
StreamExplainerMessage(q, context) == q \o ContextSeparator \o context

\* the events stream yields before it synthesizes
SynthesisOpening ==
  <<Event("message", ORCHESTRATOR, SYNTHESIZER, CombiningAll),
    Event("agent_start", ORCHESTRATOR, <<>>, <<>>),
    Event("agent_output", ORCHESTRATOR, <<>>, SynthesisHeading),
    Event("agent_output", ORCHESTRATOR, <<>>, Analyzing)>>

\* the final event of a stream whose synthesis returned
CompleteEvent(final_response) ==
  [type |-> "complete", agent |-> <<>>, to |-> <<>>,
   text |-> final_response.answer,
   sources |-> final_response.sources,
   agents_used |-> final_response.agents_used]

\* the closing events with complete yielded before the orchestrator's
\* agent_complete
SynthesisClosing_complete_early(final_response) ==
  <<Event("agent_output", ORCHESTRATOR, <<>>,
          SourcesLabel \o IntStr(Len(final_response.sources))
          \o AgentsLabel \o IntStr(Len(final_response.agents_used))
          \o QualityCheck),
    Event("message", SYNTHESIZER, ORCHESTRATOR, SynthesisComplete),
    CompleteEvent(final_response),
    Event("agent_complete", ORCHESTRATOR, <<>>, <<>>)>>

\* the events stream yields once synthesize returned
SynthesisClosing(final_response) ==
  <<Event("agent_output", ORCHESTRATOR, <<>>,
          SourcesLabel \o IntStr(Len(final_response.sources))
          \o AgentsLabel \o IntStr(Len(final_response.agents_used))
          \o QualityCheck),
    Event("message", SYNTHESIZER, ORCHESTRATOR, SynthesisComplete),
    Event("agent_complete", ORCHESTRATOR, <<>>, <<>>),
    CompleteEvent(final_response)>>

\* the except branch answering like run's: the error, then a complete
\* carrying an "Error: ..." answer
StreamError_then_complete(e) ==
  <<Event("error", ORCHESTRATOR, <<>>, e),
    CompleteEvent(SynthesizedResponse(ErrorPrefix \o e, <<>>, <<>>))>>

\* the except branch of stream
StreamError(e) == <<Event("error", ORCHESTRATOR, <<>>, e)>>

\* ------------------------------------------------- the environment's answers

MaxAgents == 2

Queries == {Query1, Query2}

AgentLists == UNION {[1..n -> AgentType] : n \in 0..MaxAgents}

Routings ==
  {RoutingDecision(a, Reasoning, c) : a \in AgentLists, c \in BOOLEAN}

MaxNames == 2

UpperResearch == <<"R","E","S","E","A","R","C","H">>
MixedExplainer == <<"E","x","p","l","a","i","n","e","r">>
Coder == <<"c","o","d","e","r">>

\* the agent names a classifier may write
ClassifierNames == {RESEARCH, UpperResearch, MixedExplainer, KNOWLEDGE, Coder}

NameLists == UNION {[1..n -> {JStr(a) : a \in ClassifierNames}] : n \in 0..MaxNames}

\* a key of the classifier's JSON object, present with a value or left out
Entry(k, value) == IF value = None THEN <<>> ELSE << <<k, value[1]>> >>

ClassifierOutput(agents, reasoning, check_knowledge_first) ==
  JDict(Entry(K_agents, agents) \o Entry(K_reasoning, reasoning)
        \o Entry(K_check_knowledge_first, check_knowledge_first))

ClassifierOutputs ==
  {ClassifierOutput(a, r, c) :
     a \in {None} \cup {Some(JList(l)) : l \in NameLists},
     r \in {None, Some(JStr(Reasoning))},
     c \in {None} \cup {Some(JBool(b)) : b \in BOOLEAN}}

\* what the classifier's model call and json.loads come to
ClassifierOutcomes ==
  {Return(o) : o \in ClassifierOutputs} \cup {Raise(RouterErr), Raise(<<>>)}

\* the output that spells the routing r out in full
OutputOf(r) ==
  ClassifierOutput(Some(JList([i \in 1..Len(r.agents) |-> JStr(r.agents[i])])),
                   Some(JStr(r.reasoning)), Some(JBool(r.check_knowledge_first)))

\* the classifier outcomes of a request: one per routing, one that names an
\* agent outside the enumeration, and the failures of the call
RequestClassifierOutcomes ==
  {Return(OutputOf(r)) : r \in Routings}
  \cup {Return(ClassifierOutput(Some(JList(<<JStr(RESEARCH), JStr(Coder)>>)),
                                Some(JStr(Reasoning)), Some(JBool(TRUE))))}
  \cup {Raise(RouterErr), Raise(<<>>)}

RouterOutcomes == {route(c) : c \in RequestClassifierOutcomes}

\* the success envelope a specialist's /a2a handler builds
OkEnvelope(text) ==
  create_a2a_response(
    JDict(<< <<K_message,
               JDict(<< <<K_role, JStr(Assistant)>>,
                        <<K_parts, JList(<<JDict(<< <<K_text, text>> >>)>>)>> >>)>> >>),
    DefaultId)

\* the error envelope a specialist's /a2a handler answers with status 200
ErrorEnvelope == create_a2a_error(INTERNAL_ERROR, InternalErrorMsg, DefaultId)

\* an envelope whose result is null
MalformedEnvelope ==
  JDict(<< <<K_jsonrpc, JStr(JsonRpcVersion)>>, <<K_result, JNull>>,
           <<K_id, JStr(DefaultId)>> >>)

TransportErrors == {TimeoutErr, ConnectErr, StatusErr}

\* what send_task can yield for a specialist that answers with `contents`
SendTaskOutcomes(contents) ==
  {Return(OkEnvelope(JStr(c))) : c \in contents}
  \cup {Return(OkEnvelope(JNull)), Return(ErrorEnvelope), Return(MalformedEnvelope)}
  \cup {Raise(e) : e \in TransportErrors}

Filler(n) == Repeat("x", n)

KnowledgeContents ==
  {ShortHit, ShortMiss,
   Filler(SufficientLength), Filler(SufficientLength + 1),
   Filler(SufficientLength) \o MixedMiss}

KnowledgeOutcomes == SendTaskOutcomes(KnowledgeContents)
ResearchOutcomes == SendTaskOutcomes({ResearchContent})
ExplainerOutcomes == SendTaskOutcomes({ExplainerContent})
ModelOutcomes == {Return(JStr(ModelAnswer)), Raise(ModelErr)}
StoreOutcomes == {Return(OkEnvelope(JStr(ShortHit))), Raise(ConnectErr)}

\* a tasks/send request body
SendBody(parts, id) ==
  JDict(<< <<K_jsonrpc, JStr(JsonRpcVersion)>>,
           <<K_method, JStr(TasksSend)>>,
           <<K_params, JDict(<< <<K_message,
                                  JDict(<< <<K_role, JStr(<<"u","s","e","r">>)>>,
                                           <<K_parts, parts>> >>)>> >>)>> >>
        \o id)

TextPart(text) == JDict(<< <<K_text, text>> >>)

\* the request bodies POSTed to /a2a
RequestBodies ==
  {SendBody(JList(<<TextPart(JStr(Query1))>>), << <<K_id, JStr(RequestId7)>> >>),
   SendBody(JList(<<TextPart(JStr(Query2))>>), <<>>),
   SendBody(JList(<<TextPart(JStr(<<>>))>>), << <<K_id, JStr(RequestId7)>> >>),
   SendBody(JList(<<>>), <<>>),
   SendBody(JList(<<JDict(<<>>)>>), <<>>),
   SendBody(JList(<<JStr(Query1)>>), <<>>),
   SendBody(JList(<<TextPart(JInt(5))>>), <<>>),
   JDict(<< <<K_method, JStr(TasksSend)>>, <<K_params, JNull>> >>),
   JDict(<< <<K_method, JStr(TasksGet)>>,
            <<K_params, JDict(<< <<K_id, JStr(RequestId7)>> >>)>> >>),
   JDict(<< <<K_method, JStr(OtherMethod)>>, <<K_id, JStr(RequestId7)>> >>),
   JDict(<<>>)}

\* the envelopes _extract_content is applied to
ExtTexts ==
  {JStr(ResearchContent), JStr(ShortMiss), JStr(<<>>), JNull, JInt(5), JBool(TRUE)}

ExtPartItems ==
  {TextPart(t) : t \in ExtTexts} \cup {JDict(<<>>), JStr(ShortHit), JNull}

ExtParts ==
  {JNull, JList(<<>>)}
  \cup {JList(<<p>>) : p \in ExtPartItems}
  \cup {JList(<<p, TextPart(JStr(ExplainerContent))>>) : p \in ExtPartItems}

ExtMessages ==
  {JNull, JStr(ShortHit), JDict(<<>>)}
  \cup {JDict(<< <<K_role, JStr(Assistant)>>, <<K_parts, p>> >>) : p \in ExtParts}

ExtResults ==
  {JNull, JStr(ShortHit), JDict(<<>>)}
  \cup {JDict(<< <<K_message, m>> >>) : m \in ExtMessages}

ExtEnvelopes ==
  {JDict(<< <<K_jsonrpc, JStr(JsonRpcVersion)>>, <<K_result, r>>,
            <<K_id, JStr(i)>> >>) : r \in ExtResults, i \in {DefaultId, RequestId7}}
  \cup {JDict(<< <<K_jsonrpc, JStr(JsonRpcVersion)>>, <<K_id, JStr(DefaultId)>> >>),
        ErrorEnvelope, JDict(<<>>), JNull, JList(<<>>), JStr(ShortHit)}

\* what send_task can yield in a stream
DataContent == <<"s","e","e"," ","d","a","t","a",":"," ","x">>

StreamSendOutcomes(contents) ==
  {Return(OkEnvelope(JStr(c))) : c \in contents}
  \cup {Return(OkEnvelope(JNull)), Return(ErrorEnvelope), Raise(TimeoutErr)}

SubCallOutcomes(agent) ==
  CASE agent = KNOWLEDGE -> StreamSendOutcomes({ShortHit, Filler(SufficientLength + 1)})
    [] agent = RESEARCH -> StreamSendOutcomes({ResearchContent, DataContent})
    [] agent = EXPLAINER -> StreamSendOutcomes({ExplainerContent})

\* ------------------------------------------------------------- state

VARIABLES
  pc,                \* where run is: idle, a node of the graph, END, raised, returned
  inflight,          \* the awaited remote call, None when none is awaited
  query, routing, knowledge_result, research_result, explainer_result,
  agent_responses, final_response, error,     \* OrchestratorState
  final,             \* the local `final` of _synthesize_response
  exc,               \* the exception propagating out of graph.ainvoke
  response,          \* what run returned
  calls,             \* every remote call issued, in order
  outcomes,          \* outcomes[i] is how calls[i] resolved
  path               \* the nodes entered, in order

VARIABLES
  syn_pc,            \* where synthesize is: idle, ready, model, done, raised
  syn_query,         \* its argument query
  syn_responses,     \* its argument responses
  syn_prompt,        \* the prompt given to the model, None when it was not called
  syn_result         \* the SynthesizedResponse returned

VARIABLES
  srv_pc,            \* where handle_a2a_request is: idle, running, replied
  srv_body,          \* the body of the request it serves
  srv_reply          \* the envelope it answered with, None while it has not

VARIABLES
  ext_pc,            \* where _extract_content is: idle, ready, done
  ext_input,         \* its argument result
  ext_output         \* the value it returned

VARIABLES
  st_pc,             \* where stream is: idle, route, a step of it, done
  st_inflight,       \* the awaited remote call, None when none is awaited
  st_query,          \* its argument query
  st_routing,        \* the RoutingDecision, None before routing
  st_responses,      \* its local agent_responses
  st_final,          \* its local final_response
  st_pending,        \* the events of the current step not yet yielded
  st_events,         \* the events yielded, in order
  st_calls,          \* every remote call issued, in order
  st_outcomes,       \* st_outcomes[i] is how st_calls[i] resolved
  st_client          \* the specialist whose A2AClient is open, None when none is

VARIABLES
  cur,               \* which of two concurrent requests is running: 1 or 2
  parked             \* the state of the other one, suspended

VARIABLES
  spl_pc,            \* where _split_content is: idle, ready, done
  spl_content,       \* its argument content
  spl_max_length,    \* its argument max_length
  spl_chunks         \* the chunks it returned

stateVars ==
  <<query, routing, knowledge_result, research_result, explainer_result,
    agent_responses, final_response, error>>

runVars == <<pc, inflight, stateVars, final, exc, response, calls, outcomes, path>>

synVars == <<syn_pc, syn_query, syn_responses, syn_prompt, syn_result>>

srvVars == <<srv_pc, srv_body, srv_reply>>

extVars == <<ext_pc, ext_input, ext_output>>

stVars == <<st_pc, st_inflight, st_query, st_routing, st_responses, st_final,
            st_pending, st_events, st_calls, st_outcomes, st_client>>

\* what the steps of run leave alone, and what the steps of synthesize do
concVars == <<cur, parked>>

VARIABLES
  env_pc,            \* where the envelope round trip is: idle, ready,
                     \* created, extracted
  env_result,        \* the result argument of create_a2a_response
  env_id,            \* its request_id argument
  env_envelope,      \* the envelope it returned
  env_content        \* what _extract_content read out of the envelope

VARIABLES
  tm_instance,       \* TokenManager._instance: None or the instance, by its
                     \* number in tm_objs
  tm_lock,           \* the thread that holds TokenManager._lock, None if free
  tm_objs,           \* the TokenManager objects created, in order, with
                     \* their attributes
  tm_held,           \* the token locks that are held: <<object, lock, thread>>
  tm_fetched,        \* how many tokens the credential has given out
  tm_now,            \* time.time(), in seconds
  tm_thread,         \* per thread: where it is in its call, the object it
                     \* works on, its settings argument, the token lock it
                     \* took, what its validity check said and the token
                     \* it fetched
  tm_started,        \* how many calls have been started
  tm_hist            \* the calls that have ended, in order, with what they
                     \* returned or raised

VARIABLES
  ex_pc,             \* where the explainer call is: idle, ready, sent,
                     \* parsed, explained
  ex_q,              \* state['query'] in the orchestrator
  ex_c,              \* state['research_result'] in the orchestrator
  ex_message,        \* the task text the orchestrator sends
  ex_query,          \* query in the explainer's handler after parsing
  ex_context,        \* context in the explainer's handler after parsing
  ex_call,           \* the arguments explain was called with
  ex_prompt          \* full_query, the prompt explain gives to its model

VARIABLES
  kn_pc,             \* where the knowledge request is: idle, ready, sent,
                     \* dispatched, handled
  kn_origin,         \* who made the task: the orchestrator's knowledge
                     \* check, its store of the final answer, or a direct
                     \* request
  kn_q,              \* the user's query the task is about
  kn_task,           \* the task text given to process
  kn_handler,        \* the handler process chose: store or search
  kn_search,         \* the query kb.search was called with, None if it
                     \* was not called
  kn_store           \* the query and content kb.store was called with,
                     \* None if it was not called

VARIABLES
  rt_stub,           \* the classifier stub of the router under test: the
                     \* outcome it gives for each query
  rt_log             \* the route calls made, in order: query, classifier
                     \* outcome and what route came to

splVars == <<spl_pc, spl_content, spl_max_length, spl_chunks>>
rtVars == <<rt_stub, rt_log>>
envVars == <<env_pc, env_result, env_id, env_envelope, env_content>>
exVars == <<ex_pc, ex_q, ex_c, ex_message, ex_query, ex_context, ex_call,
            ex_prompt>>
knVars == <<kn_pc, kn_origin, kn_q, kn_task, kn_handler, kn_search, kn_store>>
tmVars == <<tm_instance, tm_lock, tm_objs, tm_held, tm_fetched, tm_now,
            tm_thread, tm_started, tm_hist>>

\* the state of the helper functions that are checked on their own
utilVars == <<splVars, rtVars, envVars, tmVars, exVars, knVars>>
utilButSpl == <<rtVars, envVars, tmVars, exVars, knVars>>
utilButRt == <<splVars, envVars, tmVars, exVars, knVars>>
utilButEnv == <<splVars, rtVars, tmVars, exVars, knVars>>
utilButTm == <<splVars, rtVars, envVars, exVars, knVars>>
utilButEx == <<splVars, rtVars, envVars, tmVars, knVars>>
utilButKn == <<splVars, rtVars, envVars, tmVars, exVars>>

nonRunVars == <<synVars, srvVars, extVars, stVars, concVars, utilVars>>
nonSynVars == <<runVars, srvVars, extVars, stVars, concVars, utilVars>>
nonStVars == <<runVars, synVars, srvVars, extVars, concVars, utilVars>>
nonUtilVars == <<runVars, synVars, srvVars, extVars, stVars, concVars>>
nonUtilRunVars == <<synVars, srvVars, extVars, stVars, concVars>>

vars == <<runVars, synVars, srvVars, extVars, stVars, concVars, utilVars>>

\* an entry of the log of route calls
RouteCall(q, classified, result) ==
  [query |-> q, classified |-> classified, result |-> result]

Call(op, target, message) == [op |-> op, target |-> target, message |-> message]

RunInit ==
  /\ pc = "idle"
  /\ inflight = None
  /\ query = <<>>
  /\ routing = None
  /\ knowledge_result = None
  /\ research_result = None
  /\ explainer_result = None
  /\ agent_responses = <<>>
  /\ final_response = None
  /\ error = None
  /\ final = None
  /\ exc = None
  /\ response = None
  /\ calls = <<>>
  /\ outcomes = <<>>
  /\ path = <<>>

SynIdle ==
  /\ syn_pc = "idle"
  /\ syn_query = <<>>
  /\ syn_responses = <<>>
  /\ syn_prompt = None
  /\ syn_result = None

SrvIdle ==
  /\ srv_pc = "idle"
  /\ srv_body = JNull
  /\ srv_reply = None

ExtIdle ==
  /\ ext_pc = "idle"
  /\ ext_input = JNull
  /\ ext_output = JNull

StIdle ==
  /\ st_pc = "idle"
  /\ st_inflight = None
  /\ st_query = <<>>
  /\ st_routing = None
  /\ st_responses = <<>>
  /\ st_final = None
  /\ st_pending = <<>>
  /\ st_events = <<>>
  /\ st_calls = <<>>
  /\ st_outcomes = <<>>
  /\ st_client = None

\* the state of a request that has not started
IdleFrame ==
  [pc |-> "idle", inflight |-> None, query |-> <<>>, routing |-> None,
   knowledge_result |-> None, research_result |-> None,
   explainer_result |-> None, agent_responses |-> <<>>,
   final_response |-> None, error |-> None, final |-> None, exc |-> None,
   response |-> None, calls |-> <<>>, outcomes |-> <<>>, path |-> <<>>,
   st_pc |-> "idle", st_inflight |-> None, st_query |-> <<>>,
   st_routing |-> None, st_responses |-> <<>>, st_final |-> None,
   st_pending |-> <<>>, st_events |-> <<>>, st_calls |-> <<>>,
   st_outcomes |-> <<>>, st_client |-> None]

\* the state of the running request: run's OrchestratorState and locals,
\* stream's locals
Frame ==
  [pc |-> pc, inflight |-> inflight, query |-> query, routing |-> routing,
   knowledge_result |-> knowledge_result,
   research_result |-> research_result,
   explainer_result |-> explainer_result,
   agent_responses |-> agent_responses, final_response |-> final_response,
   error |-> error, final |-> final, exc |-> exc, response |-> response,
   calls |-> calls, outcomes |-> outcomes, path |-> path, st_pc |-> st_pc,
   st_inflight |-> st_inflight, st_query |-> st_query,
   st_routing |-> st_routing, st_responses |-> st_responses,
   st_final |-> st_final, st_pending |-> st_pending, st_events |-> st_events,
   st_calls |-> st_calls, st_outcomes |-> st_outcomes,
   st_client |-> st_client]

ConcIdle == cur = 1 /\ parked = IdleFrame

SplIdle ==
  /\ spl_pc = "idle"
  /\ spl_content = <<>>
  /\ spl_max_length = CHUNK_LENGTH
  /\ spl_chunks = <<>>

RtIdle == rt_stub = None /\ rt_log = <<>>

MaxThreads == 2

Threads == 1..MaxThreads

\* a thread that is in no call and has no reference to a TokenManager
IdleThread ==
  [pc |-> "idle", self |-> 0, arg |-> "", lock |-> 0, hit |-> FALSE, got |-> 0]

\* the class as the module defines it, and no thread in a call
TmIdle ==
  /\ tm_instance = None
  /\ tm_lock = None
  /\ tm_objs = <<>>
  /\ tm_held = {}
  /\ tm_fetched = 0
  /\ tm_now = 0
  /\ tm_thread = [t \in Threads |-> IdleThread]
  /\ tm_started = 0
  /\ tm_hist = <<>>

EnvIdle ==
  /\ env_pc = "idle"
  /\ env_result = JNull
  /\ env_id = <<>>
  /\ env_envelope = JNull
  /\ env_content = JNull

ExIdle ==
  /\ ex_pc = "idle"
  /\ ex_q = <<>>
  /\ ex_c = <<>>
  /\ ex_message = <<>>
  /\ ex_query = <<>>
  /\ ex_context = <<>>
  /\ ex_call = <<>>
  /\ ex_prompt = <<>>

KnIdle ==
  /\ kn_pc = "idle"
  /\ kn_origin = [by |-> "none"]
  /\ kn_q = <<>>
  /\ kn_task = <<>>
  /\ kn_handler = ""
  /\ kn_search = None
  /\ kn_store = None

UtilIdle == SplIdle /\ RtIdle /\ EnvIdle /\ TmIdle /\ ExIdle /\ KnIdle
IdleButSpl == RtIdle /\ EnvIdle /\ TmIdle /\ ExIdle /\ KnIdle
IdleButRt == SplIdle /\ EnvIdle /\ TmIdle /\ ExIdle /\ KnIdle
IdleButEnv == SplIdle /\ RtIdle /\ TmIdle /\ ExIdle /\ KnIdle
IdleButTm == SplIdle /\ RtIdle /\ EnvIdle /\ ExIdle /\ KnIdle
IdleButEx == SplIdle /\ RtIdle /\ EnvIdle /\ TmIdle /\ KnIdle
IdleButKn == SplIdle /\ RtIdle /\ EnvIdle /\ TmIdle /\ ExIdle

Init == RunInit /\ SynIdle /\ SrvIdle /\ ExtIdle /\ StIdle /\ ConcIdle /\ UtilIdle

\* the awaited call of node `node` with operation `op`
Awaiting(node, op) == pc = node /\ inflight # None /\ inflight[1].op = op

\* issue a remote call and suspend on it
Send(c) == inflight' = Some(c) /\ calls' = Append(calls, c)

\* the awaited call resolves with outcome `out`
Resolve(out) == inflight' = None /\ outcomes' = Append(outcomes, out)

\* run(query) called outside a request: build initial_state and enter the graph
Run ==
  /\ pc = "idle" /\ srv_pc = "idle" /\ st_pc = "idle"
  /\ \E q \in Queries : query' = q
  /\ routing' = None
  /\ knowledge_result' = None
  /\ research_result' = None
  /\ explainer_result' = None
  /\ agent_responses' = <<>>
  /\ final_response' = None
  /\ error' = None
  /\ pc' = "route_query"
  /\ UNCHANGED <<inflight, final, exc, response, calls, outcomes, path, nonRunVars>>

\* _route_query up to the router's model call
RouteQueryCall ==
  /\ pc = "route_query" /\ inflight = None
  /\ Send(Call("route", "router", RoutingPrompt(query)))
  /\ path' = Append(path, "route_query")
  /\ UNCHANGED <<pc, stateVars, final, exc, response, outcomes, nonRunVars>>

\* _route_query from the router's answer, then _decide_next_step
RouteQueryReturn ==
  /\ Awaiting("route_query", "route")
  /\ \E classified \in RequestClassifierOutcomes :
       LET out == route(classified)
           rt == IF out.kind = "return" THEN Some(out.v) ELSE routing
           err == IF out.kind = "return" THEN error
                  ELSE Some(RoutingFailedPrefix \o out.v.str)
       IN /\ routing' = rt
          /\ error' = err
          /\ agent_responses' = IF out.kind = "return" THEN <<>> ELSE agent_responses
          /\ pc' = RouteEdge(_decide_next_step(err, rt))
          /\ Resolve(out)
          /\ rt_log' = Append(rt_log, RouteCall(query, classified, out))
  /\ UNCHANGED <<query, knowledge_result, research_result, explainer_result,
                 final_response, final, exc, response, calls, path,
                 nonUtilRunVars, utilButRt, rt_stub>>

\* _check_knowledge up to send_task
CheckKnowledgeCall ==
  /\ pc = "check_knowledge" /\ inflight = None
  /\ Send(Call("search", "knowledge", SearchMessage(query)))
  /\ path' = Append(path, "check_knowledge")
  /\ UNCHANGED <<pc, stateVars, final, exc, response, outcomes, nonRunVars>>

\* _check_knowledge from send_task's outcome, then _knowledge_sufficient
CheckKnowledgeReturn ==
  /\ Awaiting("check_knowledge", "search")
  /\ \E out \in KnowledgeOutcomes :
       LET upd == _check_knowledge(agent_responses, out) IN
       /\ knowledge_result' = upd.knowledge_result
       /\ agent_responses' = upd.agent_responses
       /\ pc' = KnowledgeEdge(_knowledge_sufficient(upd.knowledge_result))
       /\ Resolve(out)
  /\ UNCHANGED <<query, routing, research_result, explainer_result,
                 final_response, error, final, exc, response, calls, path,
                 nonRunVars>>

\* _call_research when research is not routed, then _need_explainer
CallResearchSkip ==
  /\ pc = "call_research" /\ inflight = None
  /\ ResearchSkipped(routing)
  /\ research_result' = None
  /\ pc' = ResearchEdge(_need_explainer(routing))
  /\ path' = Append(path, "call_research")
  /\ UNCHANGED <<inflight, query, routing, knowledge_result, explainer_result,
                 agent_responses, final_response, error, final, exc, response,
                 calls, outcomes, nonRunVars>>

\* _call_research up to send_task
CallResearchCall ==
  /\ pc = "call_research" /\ inflight = None
  /\ ~ResearchSkipped(routing)
  /\ Send(Call("research", "research", query))
  /\ path' = Append(path, "call_research")
  /\ UNCHANGED <<pc, stateVars, final, exc, response, outcomes, nonRunVars>>

\* _call_research from send_task's outcome, then _need_explainer
CallResearchReturn ==
  /\ Awaiting("call_research", "research")
  /\ \E out \in ResearchOutcomes :
       LET upd == SpecialistUpdate(RESEARCH, agent_responses, out) IN
       /\ research_result' = upd.result
       /\ agent_responses' = upd.agent_responses
       /\ Resolve(out)
  /\ pc' = ResearchEdge(_need_explainer(routing))
  /\ UNCHANGED <<query, routing, knowledge_result, explainer_result,
                 final_response, error, final, exc, response, calls, path,
                 nonRunVars>>

\* _call_explainer up to send_task
\* call_explainer started alongside call_research instead of after it
CallExplainerCall_fanned_out ==
  /\ pc \in {"call_research", "call_explainer"}
  /\ \A i \in 1..Len(calls) : calls[i].op # "explain"
  /\ Send(Call("explain", "explainer", ExplainerMessage(query, research_result)))
  /\ path' = Append(path, "call_explainer")
  /\ UNCHANGED <<pc, stateVars, final, exc, response, outcomes, nonRunVars>>

CallExplainerCall ==
  /\ pc = "call_explainer" /\ inflight = None
  /\ Send(Call("explain", "explainer", ExplainerMessage(query, research_result)))
  /\ path' = Append(path, "call_explainer")
  /\ UNCHANGED <<pc, stateVars, final, exc, response, outcomes, nonRunVars>>

\* _call_explainer sending its task once more after a failure
CallExplainerReturn_retrying ==
  /\ Awaiting("call_explainer", "explain")
  /\ \E out \in ExplainerOutcomes :
       IF out.kind = "raise" /\ Len(calls) = Len(outcomes) + 1
          /\ Len(SelectSeq(calls, LAMBDA c : c.op = "explain")) = 1
       THEN /\ outcomes' = Append(outcomes, out)
            /\ calls' = Append(calls, inflight[1])
            /\ UNCHANGED <<inflight, pc, explainer_result, agent_responses>>
       ELSE LET upd == SpecialistUpdate(EXPLAINER, agent_responses, out) IN
            /\ explainer_result' = upd.result
            /\ agent_responses' = upd.agent_responses
            /\ inflight' = None
            /\ outcomes' = Append(outcomes, out)
            /\ pc' = "synthesize"
            /\ UNCHANGED calls
  /\ UNCHANGED <<query, routing, knowledge_result, research_result,
                 final_response, error, final, exc, response, path, nonRunVars>>

\* _call_explainer from send_task's outcome; the edge to synthesize
CallExplainerReturn ==
  /\ Awaiting("call_explainer", "explain")
  /\ \E out \in ExplainerOutcomes :
       LET upd == SpecialistUpdate(EXPLAINER, agent_responses, out) IN
       /\ explainer_result' = upd.result
       /\ agent_responses' = upd.agent_responses
       /\ Resolve(out)
  /\ pc' = "synthesize"
  /\ UNCHANGED <<query, routing, knowledge_result, research_result,
                 final_response, error, final, exc, response, calls, path,
                 nonRunVars>>

\* the short circuit of _synthesize_response returning an empty update
SynthesizeEmpty_without_response ==
  /\ pc = "synthesize" /\ inflight = None
  /\ agent_responses = <<>>
  /\ pc' = "END"
  /\ path' = Append(path, "synthesize")
  /\ UNCHANGED <<inflight, stateVars, final, exc, response, calls, outcomes,
                 nonRunVars>>

\* _synthesize_response with no responses: the fixed answer; the edge to END
SynthesizeEmpty ==
  /\ pc = "synthesize" /\ inflight = None
  /\ agent_responses = <<>>
  /\ final_response' = Some(EmptySynthesis)
  /\ pc' = "END"
  /\ path' = Append(path, "synthesize")
  /\ UNCHANGED <<inflight, query, routing, knowledge_result, research_result,
                 explainer_result, agent_responses, error, final, exc, response,
                 calls, outcomes, nonRunVars>>

\* _synthesize_response, synthesize returning its single success directly,
\* up to the store task's send_task
SynthesizeDirect ==
  /\ pc = "synthesize" /\ inflight = None
  /\ agent_responses # <<>>
  /\ ~NeedsModel(agent_responses)
  /\ final' = Some(DirectResponse(agent_responses))
  /\ Send(Call("store", "knowledge",
               StoreMessage(query, DirectResponse(agent_responses).answer)))
  /\ path' = Append(path, "synthesize")
  /\ UNCHANGED <<pc, stateVars, exc, response, outcomes, nonRunVars>>

\* _synthesize_response, synthesize up to its model call
SynthesizeModelCall ==
  /\ pc = "synthesize" /\ inflight = None
  /\ agent_responses # <<>>
  /\ NeedsModel(agent_responses)
  /\ Send(Call("synthesize", "synthesizer",
               SynthesisPrompt(query, agent_responses)))
  /\ path' = Append(path, "synthesize")
  /\ UNCHANGED <<pc, stateVars, final, exc, response, outcomes, nonRunVars>>

\* synthesize from the model's answer up to the store task's send_task
SynthesizeModelReturn ==
  /\ Awaiting("synthesize", "synthesize")
  /\ \E out \in {x \in ModelOutcomes : x.kind = "return"} :
       /\ final' = Some(ModelResponse(out.v.v, agent_responses))
       /\ calls' = Append(calls, Call("store", "knowledge",
                                      StoreMessage(query, out.v.v)))
       /\ inflight' = Some(Call("store", "knowledge", StoreMessage(query, out.v.v)))
       /\ outcomes' = Append(outcomes, out)
  /\ UNCHANGED <<pc, stateVars, exc, response, path, nonRunVars>>

\* the model call of synthesize raises: the exception leaves the graph
SynthesizeModelRaise ==
  /\ Awaiting("synthesize", "synthesize")
  /\ \E out \in {x \in ModelOutcomes : x.kind = "raise"} :
       /\ exc' = Some(out.v.str)
       /\ Resolve(out)
  /\ pc' = "raised"
  /\ UNCHANGED <<stateVars, final, response, calls, path, nonRunVars>>

\* _synthesize_response without the try/except around the store task
StoreReturn_unguarded ==
  /\ Awaiting("synthesize", "store")
  /\ \E out \in StoreOutcomes :
       /\ Resolve(out)
       /\ IF out.kind = "raise"
          THEN /\ exc' = Some(out.v.str)
               /\ pc' = "raised"
               /\ UNCHANGED final_response
          ELSE /\ final_response' = final
               /\ pc' = "END"
               /\ UNCHANGED exc
  /\ UNCHANGED <<query, routing, knowledge_result, research_result,
                 explainer_result, agent_responses, error, final, response,
                 calls, path, nonRunVars>>

\* _synthesize_response from the store task's outcome (ignored); the edge to END
StoreReturn ==
  /\ Awaiting("synthesize", "store")
  /\ \E out \in StoreOutcomes : Resolve(out)
  /\ final_response' = final
  /\ pc' = "END"
  /\ UNCHANGED <<query, routing, knowledge_result, research_result,
                 explainer_result, agent_responses, error, final, exc, response,
                 calls, path, nonRunVars>>

\* run after graph.ainvoke returned
RunReturn ==
  /\ pc = "END"
  /\ response' = Some(RunResult(error, final_response))
  /\ pc' = "returned"
  /\ UNCHANGED <<inflight, stateVars, final, exc, calls, outcomes, path, nonRunVars>>

\* run after graph.ainvoke raised
RunRaised ==
  /\ pc = "raised"
  /\ response' = Some(RunExcept(exc[1]))
  /\ pc' = "returned"
  /\ UNCHANGED <<inflight, stateVars, final, exc, calls, outcomes, path, nonRunVars>>

\* POST /a2a: handle_a2a_request up to its reply or its call of run
HandleA2ARequest ==
  /\ srv_pc = "idle" /\ pc = "idle" /\ st_pc = "idle"
  /\ \E body \in RequestBodies :
       LET h == HandleBody(body) IN
       /\ srv_body' = body
       /\ IF h.kind = "reply"
          THEN /\ srv_reply' = Some(h.v)
               /\ srv_pc' = "replied"
               /\ UNCHANGED <<pc, query>>
          ELSE /\ srv_reply' = None
               /\ srv_pc' = "running"
               /\ query' = h.v
               /\ pc' = "route_query"
  /\ routing' = None
  /\ knowledge_result' = None
  /\ research_result' = None
  /\ explainer_result' = None
  /\ agent_responses' = <<>>
  /\ final_response' = None
  /\ error' = None
  /\ UNCHANGED <<inflight, final, exc, response, calls, outcomes, path, synVars,
                 extVars, stVars, concVars, utilVars>>

\* handle_a2a_request from the return of run
A2AReply ==
  /\ srv_pc = "running" /\ pc = "returned"
  /\ srv_reply' = Some(RunEnvelope(response[1],
                                   DictGet(srv_body.v, K_id, JStr(DefaultId)).v))
  /\ srv_pc' = "replied"
  /\ UNCHANGED <<runVars, synVars, extVars, stVars, concVars, utilVars, srv_body>>

RunNext ==
  \/ Run
  \/ RouteQueryCall \/ RouteQueryReturn
  \/ CheckKnowledgeCall \/ CheckKnowledgeReturn
  \/ CallResearchSkip \/ CallResearchCall \/ CallResearchReturn
  \/ CallExplainerCall \/ CallExplainerReturn
  \/ SynthesizeEmpty \/ SynthesizeDirect
  \/ SynthesizeModelCall \/ SynthesizeModelReturn \/ SynthesizeModelRaise
  \/ StoreReturn
  \/ RunReturn \/ RunRaised

Next == RunNext \/ HandleA2ARequest \/ A2AReply

Spec == Init /\ [][Next]_vars

\* Every awaited call resolves (send_task returns or raises within its
\* timeout, a model call returns or raises) and code between two awaits runs
\* to the next one.
FairSpec == Spec /\ WF_vars(Next)

\* ------------------------------------- synthesize as a function of its input

MaxResponses == 3

StaleContent == <<"s","t","a","l","e">>

\* the AgentResponses a caller can build
ResponseDomain ==
  {AgentResponse(n, c, TRUE, None) : n \in AgentType, c \in {ResearchContent, ExplainerContent}}
  \cup {AgentResponse(n, <<>>, FALSE, Some(TimeoutErr)) : n \in AgentType}
  \cup {AgentResponse(n, StaleContent, FALSE, None) : n \in AgentType}

ResponseLists == UNION {[1..n -> ResponseDomain] : n \in 0..MaxResponses}

SynReady ==
  /\ syn_pc = "ready"
  /\ syn_query \in {Query1}
  /\ syn_responses \in ResponseLists
  /\ syn_prompt = None
  /\ syn_result = None

\* synthesize with exactly one successful response: the early return
SynReturnDirect ==
  /\ syn_pc = "ready"
  /\ ~NeedsModel(syn_responses)
  /\ syn_result' = Some(DirectResponse(syn_responses))
  /\ syn_pc' = "done"
  /\ UNCHANGED <<syn_query, syn_responses, syn_prompt, nonSynVars>>

\* synthesize up to its model call
SynCallModel ==
  /\ syn_pc = "ready"
  /\ NeedsModel(syn_responses)
  /\ syn_prompt' = Some(SynthesisPrompt(syn_query, syn_responses))
  /\ syn_pc' = "model"
  /\ UNCHANGED <<syn_query, syn_responses, syn_result, nonSynVars>>

\* synthesize from the model's answer
SynModelReturn ==
  /\ syn_pc = "model"
  /\ \E out \in {x \in ModelOutcomes : x.kind = "return"} :
       syn_result' = Some(ModelResponse(out.v.v, syn_responses))
  /\ syn_pc' = "done"
  /\ UNCHANGED <<syn_query, syn_responses, syn_prompt, nonSynVars>>

\* the model call raises: synthesize raises
SynModelRaise ==
  /\ syn_pc = "model"
  /\ \E out \in {x \in ModelOutcomes : x.kind = "raise"} : TRUE
  /\ syn_pc' = "raised"
  /\ UNCHANGED <<syn_query, syn_responses, syn_prompt, syn_result, nonSynVars>>

SynNext == SynReturnDirect \/ SynCallModel \/ SynModelReturn \/ SynModelRaise

SynInit ==
  RunInit /\ SrvIdle /\ ExtIdle /\ StIdle /\ ConcIdle /\ UtilIdle /\ SynReady

SpecSynth == SynInit /\ [][SynNext]_vars

\* ------------------------------ _extract_content as a function of its input

ExtReady ==
  /\ ext_pc = "ready"
  /\ ext_input \in ExtEnvelopes
  /\ ext_output = JNull

\* content = self._extract_content(result)
ExtractContent ==
  /\ ext_pc = "ready"
  /\ ext_output' = _extract_content(ext_input)
  /\ ext_pc' = "done"
  /\ UNCHANGED <<ext_input, runVars, synVars, srvVars, stVars, concVars,
                 utilVars>>

ExtInit ==
  RunInit /\ SynIdle /\ SrvIdle /\ StIdle /\ ConcIdle /\ UtilIdle /\ ExtReady

SpecExtract == ExtInit /\ [][ExtractContent]_vars

\* --------------------------------------------- StreamingOrchestrator.stream
\* stream is a generator: the events a step produces are handed to the
\* consumer one by one (StreamYield), and the code after the last of them,
\* the next remote call included, runs only when the consumer asks for more.

\* whether stream makes the sub-call of `agent`
SubCallRouted(agent, rt) ==
  CASE agent = KNOWLEDGE -> rt.check_knowledge_first
    [] agent = RESEARCH -> InList(RESEARCH, rt.agents)
    [] agent = EXPLAINER -> InList(EXPLAINER, rt.agents)

SubCallOp(agent) ==
  CASE agent = KNOWLEDGE -> "search"
    [] agent = RESEARCH -> "research"
    [] agent = EXPLAINER -> "explain"

\* the generator's positions around the sub-call of `agent`: before its
\* condition, inside the try, suspended in send_task
StepOf(agent) == SubCallOp(agent) \o "_step"

TryOf(agent) == SubCallOp(agent) \o "_try"

AwaitOf(agent) == SubCallOp(agent) \o "_await"

\* the step after the sub-call of `agent`
StepAfter(agent) ==
  CASE agent = KNOWLEDGE -> StepOf(RESEARCH)
    [] agent = RESEARCH -> StepOf(EXPLAINER)
    [] agent = EXPLAINER -> "synthesis"

\* the task the sub-call of `agent` sends
SubCallMessage(agent, q, responses) ==
  CASE agent = KNOWLEDGE -> SearchMessage(q)
    [] agent = RESEARCH -> q
    [] agent = EXPLAINER -> StreamExplainerMessage(q, ResearchContext(responses))

StSend(c) == st_inflight' = Some(c) /\ st_calls' = Append(st_calls, c)

StResolve(out) == st_inflight' = None /\ st_outcomes' = Append(st_outcomes, out)

\* the generator is ready to run the code of step `step`
StAt(step) == st_pc = step /\ st_pending = <<>> /\ st_inflight = None

\* stream(query) up to its first events
Stream ==
  /\ st_pc = "idle" /\ pc = "idle" /\ srv_pc = "idle"
  /\ \E q \in Queries : st_query' = q /\ st_pending' = StreamOpening(q)
  /\ st_pc' = "route"
  /\ UNCHANGED <<st_client, st_inflight, st_routing, st_responses, st_final,
                 st_events, st_calls, st_outcomes, nonStVars>>

\* the consumer takes the next event
StreamYield ==
  /\ st_pending # <<>>
  /\ st_events' = Append(st_events, Head(st_pending))
  /\ st_pending' = Tail(st_pending)
  /\ UNCHANGED <<st_client, st_pc, st_inflight, st_query, st_routing,
                 st_responses, st_final, st_calls, st_outcomes, nonStVars>>

\* stream up to the router's model call
StreamRouteCall ==
  /\ StAt("route")
  /\ StSend(Call("route", "router", RoutingPrompt(st_query)))
  /\ st_pc' = "routing"
  /\ UNCHANGED <<st_client, st_query, st_routing, st_responses, st_final,
                 st_pending, st_events, st_outcomes, nonStVars>>

\* stream from the router's answer; its failure ends the stream with error
StreamRouteReturn ==
  /\ st_pc = "routing" /\ st_inflight # None
  /\ \E out \in RouterOutcomes :
       /\ StResolve(out)
       /\ IF out.kind = "return"
          THEN /\ st_routing' = Some(out.v)
               /\ st_pending' = <<RoutingEvent(out.v)>>
               /\ st_pc' = StepOf(KNOWLEDGE)
          ELSE /\ st_pending' = StreamError(out.v.str)
               /\ st_pc' = "done"
               /\ UNCHANGED st_routing
  /\ UNCHANGED <<st_client, st_query, st_responses, st_final, st_events,
                 st_calls, nonStVars>>

\* a sub-call that is not routed is passed over
StreamSubCallSkip(agent) ==
  /\ StAt(StepOf(agent))
  /\ ~SubCallRouted(agent, st_routing[1])
  /\ st_pc' = StepAfter(agent)
  /\ st_client' = None
  /\ UNCHANGED <<st_inflight, st_query, st_routing, st_responses, st_final,
                 st_pending, st_events, st_calls, st_outcomes, nonStVars>>

\* _call_knowledge / _call_research / _call_explainer up to the try
StreamSubCallStart(agent) ==
  /\ StAt(StepOf(agent))
  /\ SubCallRouted(agent, st_routing[1])
  /\ st_pending' = SubCallOpening(agent, st_query)
  /\ st_pc' = TryOf(agent)
  /\ st_client' = None
  /\ UNCHANGED <<st_inflight, st_query, st_routing, st_responses, st_final,
                 st_events, st_calls, st_outcomes, nonStVars>>

\* the sub-call up to send_task
StreamSubCallSend(agent) ==
  /\ StAt(TryOf(agent))
  /\ StSend(Call(SubCallOp(agent), agent,
                 SubCallMessage(agent, st_query, st_responses)))
  /\ st_pc' = AwaitOf(agent)
  /\ st_client' = Some(agent)
  /\ UNCHANGED <<st_query, st_routing, st_responses, st_final, st_pending,
                 st_events, st_outcomes, nonStVars>>

\* a failed sub-call ending the stream like an exception of stream itself
StreamSubCallReturn_fatal(agent) ==
  /\ st_pc = AwaitOf(agent) /\ st_inflight # None
  /\ \E out \in SubCallOutcomes(agent) :
       /\ StResolve(out)
       /\ st_pending' = SubCallEvents(agent, out)
       /\ st_responses' = st_responses \o CollectAll(SubCallEvents(agent, out))
       /\ st_pc' = IF out.kind = "raise" THEN "done" ELSE StepAfter(agent)
       /\ st_client' = IF out.kind = "raise" THEN None ELSE st_client
  /\ UNCHANGED <<st_query, st_routing, st_final, st_events, st_calls, nonStVars>>

\* the sub-call from send_task's outcome: its events, and what stream
\* collects from them; an exception leaves the `async with` and closes the
\* client before error is yielded, the other events are yielded inside it
StreamSubCallReturn(agent) ==
  /\ st_pc = AwaitOf(agent) /\ st_inflight # None
  /\ \E out \in SubCallOutcomes(agent) :
       /\ StResolve(out)
       /\ st_pending' = SubCallEvents(agent, out)
       /\ st_responses' = st_responses \o CollectAll(SubCallEvents(agent, out))
       /\ st_client' = IF out.kind = "raise" THEN None ELSE st_client
  /\ st_pc' = StepAfter(agent)
  /\ UNCHANGED <<st_query, st_routing, st_final, st_events, st_calls, nonStVars>>

\* stream up to the events before synthesis
StreamSynthesisStart ==
  /\ StAt("synthesis")
  /\ st_pending' = SynthesisOpening
  /\ st_pc' = "synthesize"
  /\ st_client' = None
  /\ UNCHANGED <<st_inflight, st_query, st_routing, st_responses, st_final,
                 st_events, st_calls, st_outcomes, nonStVars>>

\* synthesize returning its single success directly; the closing events
StreamSynthesizeDirect ==
  /\ StAt("synthesize")
  /\ ~NeedsModel(st_responses)
  /\ st_final' = Some(DirectResponse(st_responses))
  /\ st_pending' = SynthesisClosing(DirectResponse(st_responses))
  /\ st_pc' = "done"
  /\ UNCHANGED <<st_client, st_inflight, st_query, st_routing, st_responses,
                 st_events, st_calls, st_outcomes, nonStVars>>

\* synthesize up to its model call
StreamSynthesizeCall ==
  /\ StAt("synthesize")
  /\ NeedsModel(st_responses)
  /\ StSend(Call("synthesize", "synthesizer",
                 SynthesisPrompt(st_query, st_responses)))
  /\ st_pc' = "synthesizing"
  /\ UNCHANGED <<st_client, st_query, st_routing, st_responses, st_final,
                 st_pending, st_events, st_outcomes, nonStVars>>

\* synthesize from the model's outcome: the closing events, or error
StreamSynthesizeReturn ==
  /\ st_pc = "synthesizing" /\ st_inflight # None
  /\ \E out \in ModelOutcomes :
       /\ StResolve(out)
       /\ IF out.kind = "return"
          THEN /\ st_final' = Some(ModelResponse(out.v.v, st_responses))
               /\ st_pending' = SynthesisClosing(ModelResponse(out.v.v, st_responses))
          ELSE /\ st_pending' = StreamError(out.v.str)
               /\ UNCHANGED st_final
  /\ st_pc' = "done"
  /\ UNCHANGED <<st_client, st_query, st_routing, st_responses, st_events,
                 st_calls, nonStVars>>

StreamNext ==
  \/ Stream \/ StreamYield
  \/ StreamRouteCall \/ StreamRouteReturn
  \/ \E agent \in {KNOWLEDGE, RESEARCH, EXPLAINER} :
        \/ StreamSubCallSkip(agent)
        \/ StreamSubCallStart(agent)
        \/ StreamSubCallSend(agent)
        \/ StreamSubCallReturn(agent)
  \/ StreamSynthesisStart
  \/ StreamSynthesizeDirect \/ StreamSynthesizeCall \/ StreamSynthesizeReturn

SpecStream == Init /\ [][StreamNext]_vars

\* the calls that block the event loop: generate_content and
\* chat.completions.create are not awaited
ModelOps == {"route", "synthesize"}

\* a request in state f can be suspended: run between two nodes or in
\* send_task, stream at a yield or in send_task, either before it has
\* started or after it has ended
Blocking(inf) == IF inf = None THEN FALSE ELSE inf[1].op \in ModelOps

\* a close that the except branch of stream answers like a failure, with the
\* empty text of the exception
StreamCancel_caught ==
  /\ st_pc \notin {"idle", "done", "cancelled"}
  /\ ~Blocking(st_inflight)
  /\ st_pc' = "cancelled"
  /\ st_inflight' = None
  /\ st_client' = None
  /\ st_pending' = StreamError(<<>>)
  /\ UNCHANGED <<st_query, st_routing, st_responses, st_final, st_events,
                 st_calls, st_outcomes, nonStVars>>

\* The consumer closes the stream.  The generator is suspended at a yield,
\* where aclose() raises GeneratorExit, or in send_task, where the
\* cancelled task raises CancelledError; neither is an Exception, so no
\* except branch of stream or of a sub-call runs, and the `async with` of
\* the sub-call closes its client on the way out.  The model calls of the
\* router and the synthesizer do not suspend.
StreamCancel ==
  /\ st_pc \notin {"idle", "done", "cancelled"}
  /\ ~Blocking(st_inflight)
  /\ st_pc' = "cancelled"
  /\ st_inflight' = None
  /\ st_client' = None
  /\ st_pending' = <<>>
  /\ UNCHANGED <<st_query, st_routing, st_responses, st_final, st_events,
                 st_calls, st_outcomes, nonStVars>>

\* a stream whose consumer may close it
SpecCancel == Init /\ [][StreamNext \/ StreamCancel]_vars

\* one request, served by run (directly or through /a2a) or by stream
RequestNext == Next \/ StreamNext

SpecRequest == Init /\ [][RequestNext]_vars

\* ------------------------------------------------- two concurrent requests
\* agent and streaming_orchestrator are module-level singletons, so two
\* requests served at once are two coroutines on one object, interleaved by
\* the event loop where they suspend.  The variables of run and stream hold
\* the state of the running coroutine, `parked` that of the suspended one.

Suspended(f) ==
  /\ ~Blocking(f.inflight)
  /\ IF f.st_inflight # None THEN ~Blocking(f.st_inflight)
     ELSE f.st_pc \in {"idle", "done"} \/ f.st_pending # <<>>

\* the response lists kept on the shared object instead of in the request
Switch_sharing_responses ==
  /\ Suspended(Frame)
  /\ parked' = Frame
  /\ cur' = 3 - cur
  /\ pc' = parked.pc
  /\ inflight' = parked.inflight
  /\ query' = parked.query
  /\ routing' = parked.routing
  /\ knowledge_result' = parked.knowledge_result
  /\ research_result' = parked.research_result
  /\ explainer_result' = parked.explainer_result
  /\ final_response' = parked.final_response
  /\ error' = parked.error
  /\ final' = parked.final
  /\ exc' = parked.exc
  /\ response' = parked.response
  /\ calls' = parked.calls
  /\ outcomes' = parked.outcomes
  /\ path' = parked.path
  /\ st_pc' = parked.st_pc
  /\ st_inflight' = parked.st_inflight
  /\ st_query' = parked.st_query
  /\ st_routing' = parked.st_routing
  /\ st_final' = parked.st_final
  /\ st_pending' = parked.st_pending
  /\ st_events' = parked.st_events
  /\ st_calls' = parked.st_calls
  /\ st_outcomes' = parked.st_outcomes
  /\ st_client' = parked.st_client
  /\ UNCHANGED <<agent_responses, st_responses, synVars, srvVars, extVars,
                 utilVars>>

\* the event loop suspends the running request and resumes the other one
Switch ==
  /\ Suspended(Frame)
  /\ parked' = Frame
  /\ cur' = 3 - cur
  /\ pc' = parked.pc
  /\ inflight' = parked.inflight
  /\ query' = parked.query
  /\ routing' = parked.routing
  /\ knowledge_result' = parked.knowledge_result
  /\ research_result' = parked.research_result
  /\ explainer_result' = parked.explainer_result
  /\ agent_responses' = parked.agent_responses
  /\ final_response' = parked.final_response
  /\ error' = parked.error
  /\ final' = parked.final
  /\ exc' = parked.exc
  /\ response' = parked.response
  /\ calls' = parked.calls
  /\ outcomes' = parked.outcomes
  /\ path' = parked.path
  /\ st_pc' = parked.st_pc
  /\ st_inflight' = parked.st_inflight
  /\ st_query' = parked.st_query
  /\ st_routing' = parked.st_routing
  /\ st_responses' = parked.st_responses
  /\ st_final' = parked.st_final
  /\ st_pending' = parked.st_pending
  /\ st_events' = parked.st_events
  /\ st_calls' = parked.st_calls
  /\ st_outcomes' = parked.st_outcomes
  /\ st_client' = parked.st_client
  /\ UNCHANGED <<synVars, srvVars, extVars, utilVars>>

\* the outcomes the two requests are run with, a part of those of one request
ConcRoutings ==
  {RoutingDecision(<<EXPLAINER>>, Reasoning, TRUE),
   RoutingDecision(<<RESEARCH>>, Reasoning, FALSE),
   RoutingDecision(<<>>, Reasoning, FALSE)}

ConcOutcomes(op) ==
  CASE op = "route" -> {Return(r) : r \in ConcRoutings} \cup {Raise(RouterErr)}
    [] op = "search" -> {Return(OkEnvelope(JStr(ShortHit)))}
    [] op = "research" -> {Return(OkEnvelope(JStr(ResearchContent)))}
    [] op = "explain" -> {Return(OkEnvelope(JStr(ExplainerContent)))}
    [] op = "synthesize" -> ModelOutcomes
    [] op = "store" -> {Raise(ConnectErr)}

\* both requests have had outcomes of ConcOutcomes only
ConcEnv ==
  /\ \A i \in 1..Len(outcomes) : outcomes[i] \in ConcOutcomes(calls[i].op)
  /\ \A i \in 1..Len(st_outcomes) : st_outcomes[i] \in ConcOutcomes(st_calls[i].op)

\* a step of the running request, or the event loop switching to the other
ConcNext ==
  \/ Switch
  \/ Run /\ ConcEnv'
  \/ RouteQueryCall /\ ConcEnv'
  \/ RouteQueryReturn /\ ConcEnv'
  \/ CheckKnowledgeCall /\ ConcEnv'
  \/ CheckKnowledgeReturn /\ ConcEnv'
  \/ CallResearchSkip /\ ConcEnv'
  \/ CallResearchCall /\ ConcEnv'
  \/ CallResearchReturn /\ ConcEnv'
  \/ CallExplainerCall /\ ConcEnv'
  \/ CallExplainerReturn /\ ConcEnv'
  \/ SynthesizeEmpty /\ ConcEnv'
  \/ SynthesizeDirect /\ ConcEnv'
  \/ SynthesizeModelCall /\ ConcEnv'
  \/ SynthesizeModelReturn /\ ConcEnv'
  \/ SynthesizeModelRaise /\ ConcEnv'
  \/ StoreReturn /\ ConcEnv'
  \/ RunReturn /\ ConcEnv'
  \/ RunRaised /\ ConcEnv'
  \/ Stream /\ ConcEnv'
  \/ StreamYield /\ ConcEnv'
  \/ StreamRouteCall /\ ConcEnv'
  \/ StreamRouteReturn /\ ConcEnv'
  \/ \E agent \in {KNOWLEDGE, RESEARCH, EXPLAINER} :
        \/ StreamSubCallSkip(agent) /\ ConcEnv'
        \/ StreamSubCallStart(agent) /\ ConcEnv'
        \/ StreamSubCallSend(agent) /\ ConcEnv'
        \/ StreamSubCallReturn(agent) /\ ConcEnv'
  \/ StreamSynthesisStart /\ ConcEnv'
  \/ StreamSynthesizeDirect /\ ConcEnv'
  \/ StreamSynthesizeCall /\ ConcEnv'
  \/ StreamSynthesizeReturn /\ ConcEnv'

SpecConcurrent == Init /\ [][ConcNext]_vars

\* ------------------------------------- _split_content as a function of its
\* arguments

MaxContentLen == 5

MaxChunkLength == 3

\* contents of letters and newlines, line by line or all in one line, up to
\* MaxContentLen characters
ShortContents == UNION {[1..n -> {"a", "\n"}] : n \in 0..MaxContentLen}

\* contents around the length the sub-calls chunk at
LongContents ==
  {Filler(CHUNK_LENGTH), Filler(CHUNK_LENGTH + 1),
   Filler(CHUNK_LENGTH) \o <<"\n">>,
   Filler(CHUNK_LENGTH) \o <<"\n">> \o Filler(2),
   Filler(CHUNK_LENGTH - 1) \o <<"\n">> \o Filler(2) \o <<"\n">>}

SplReady ==
  /\ spl_pc = "ready"
  /\ \/ spl_content \in ShortContents /\ spl_max_length \in 1..MaxChunkLength
     \/ spl_content \in LongContents /\ spl_max_length = CHUNK_LENGTH
  /\ spl_chunks = <<>>

SplitContent ==
  /\ spl_pc = "ready"
  /\ spl_chunks' = _split_content(spl_content, spl_max_length)
  /\ spl_pc' = "done"
  /\ UNCHANGED <<spl_content, spl_max_length, nonUtilVars, utilButSpl>>

SplInit ==
  /\ RunInit /\ SynIdle /\ SrvIdle /\ ExtIdle /\ StIdle /\ ConcIdle
  /\ SplReady /\ IdleButSpl

SpecSplit == SplInit /\ [][SplitContent]_vars

\* ---------------------------------------------- route with a classifier stub
\* The router is called directly, any number of times up to MaxRouteCalls,
\* with a stub in place of the model: the stub answers a query with the same
\* outcome every time.

MaxRouteCalls == 3

\* what the stub answers to the second query
OtherOutcomes ==
  {Return(ClassifierOutput(Some(JList(<<JStr(MixedExplainer)>>)), None,
                           Some(JBool(FALSE)))),
   Raise(RouterErr)}

Stubs ==
  {[q \in Queries |-> IF q = Query1 THEN c ELSE d] :
     c \in ClassifierOutcomes, d \in OtherOutcomes}

\* a route that keeps the agents of the call before and puts them first
Route_remembering ==
  /\ rt_stub # None /\ Len(rt_log) < MaxRouteCalls
  /\ \E q \in Queries :
       LET out == route(rt_stub[q])
           last == IF rt_log = <<>> THEN out ELSE rt_log[Len(rt_log)].result
           kept == IF out.kind = "return" /\ last.kind = "return"
                   THEN Return([out.v EXCEPT !.agents = last.v.agents \o @])
                   ELSE out
       IN rt_log' = Append(rt_log, RouteCall(q, rt_stub[q], kept))
  /\ UNCHANGED <<rt_stub, nonUtilVars, utilButRt>>

\* route(q) on the router with the stub
Route ==
  /\ rt_stub # None /\ Len(rt_log) < MaxRouteCalls
  /\ \E q \in Queries :
       rt_log' = Append(rt_log, RouteCall(q, rt_stub[q], route(rt_stub[q])))
  /\ UNCHANGED <<rt_stub, nonUtilVars, utilButRt>>

RtInit ==
  /\ RunInit /\ SynIdle /\ SrvIdle /\ ExtIdle /\ StIdle /\ ConcIdle
  /\ rt_stub \in Stubs /\ rt_log = <<>> /\ IdleButRt

SpecRoute == RtInit /\ [][Route]_vars

\* ------------------------------------- the success envelope and its reading
\* create_a2a_response builds the envelope of a result, and the orchestrator's
\* _extract_content reads the text back out of it.

MaxTextLen == 3

EnvTexts == UNION {[1..n -> {"a", "'", "\n"}] : n \in 0..MaxTextLen}

\* results that are dicts already
EnvDicts ==
  {JDict(<<>>),
   JDict(<< <<K_status, JStr(Completed)>>, <<K_task_id, JStr(RequestId7)>> >>),
   JDict(<< <<K_message, JNull>> >>),
   JDict(<< <<K_message,
              JDict(<< <<K_role, JStr(Assistant)>>,
                       <<K_parts, JList(<<TextPart(JStr(ShortHit))>>)>> >>)>>,
            <<K_metadata, JDict(<< <<K_sources, JList(<<>>)>> >>)>> >>)}

EnvReady ==
  /\ env_pc = "ready"
  /\ env_result \in {JStr(s) : s \in EnvTexts} \cup EnvDicts
  /\ env_id \in {DefaultId, RequestId7}
  /\ env_envelope = JNull
  /\ env_content = JNull

\* envelope = create_a2a_response(result, request_id)
CreateResponse ==
  /\ env_pc = "ready"
  /\ env_envelope' = create_a2a_response(env_result, env_id)
  /\ env_pc' = "created"
  /\ UNCHANGED <<env_result, env_id, env_content, nonUtilVars, utilButEnv>>

\* content = _extract_content(envelope)
ExtractFromResponse ==
  /\ env_pc = "created"
  /\ env_content' = _extract_content(env_envelope)
  /\ env_pc' = "extracted"
  /\ UNCHANGED <<env_result, env_id, env_envelope, nonUtilVars, utilButEnv>>

EnvInit ==
  /\ RunInit /\ SynIdle /\ SrvIdle /\ ExtIdle /\ StIdle /\ ConcIdle
  /\ EnvReady /\ IdleButEnv

SpecRoundTrip == EnvInit /\ [][CreateResponse \/ ExtractFromResponse]_vars

\* ------------------------------------------------------- agents/explainer
\* The orchestrator sends the explainer one text holding the query and the
\* research result; the explainer's handler takes it apart again and asks
\* the agent for an explanation.

\* the text the handler looks for and splits on
ContextMarker ==
  <<"\n","\n","C","o","n","t","e","x","t"," ","f","r","o","m"," ","r",
    "e","s","e","a","r","c","h",":">>

ExplainHead ==
  <<"E","x","p","l","a","i","n"," ","t","h","i","s"," ","t","e","c",
    "h","n","o","l","o","g","y","/","t","o","p","i","c",":"," ">>

AdditionalContextLabel ==
  <<"A","d","d","i","t","i","o","n","a","l"," ","C","o","n","t","e",
    "x","t",":"," ">>

DocumentationLabel ==
  <<"D","o","c","u","m","e","n","t","a","t","i","o","n"," ","R","e",
    "f","e","r","e","n","c","e",":"," ">>

ExplainTail ==
  <<"P","r","o","v","i","d","e"," ","a"," ","d","e","t","a","i","l",
    "e","d"," ","e","x","p","l","a","n","a","t","i","o","n"," ","w",
    "i","t","h"," ","c","o","d","e"," ","e","x","a","m","p","l","e",
    "s",".">>

BlankLine == <<"\n", "\n">>

\* s.find(sep) + 1: where sep first starts in s, 0 if it does not occur
Find(s, sep) ==
  LET starts == {i \in 1..(Len(s) - Len(sep) + 1) :
                   SubSeq(s, i, i + Len(sep) - 1) = sep}
  IN  IF starts = {} THEN 0
      ELSE CHOOSE i \in starts : \A j \in starts : i <= j

\* s.split(sep, 1)
SplitOnce(s, sep) ==
  LET i == Find(s, sep)
  IN  IF i = 0 THEN <<s>>
      ELSE <<SubSeq(s, 1, i - 1), SubSeq(s, i + Len(sep), Len(s))>>

\* the handler's parsing of the task text into query and context
ParseContext(text) ==
  IF Contains(text, ContextMarker)
    THEN LET query_parts == SplitOnce(text, ContextMarker)
         IN  [query |-> query_parts[1],
              context |-> IF Len(query_parts) > 1 THEN query_parts[2]
                          ELSE <<>>]
    ELSE [query |-> text, context |-> <<>>]

\* full_query in explain
full_query(query_text, context, doc_context) ==
  ExplainHead \o query_text \o BlankLine
    \o (IF context # <<>> THEN AdditionalContextLabel \o context ELSE <<>>)
    \o BlankLine
    \o (IF doc_context # <<>> THEN DocumentationLabel \o doc_context
        ELSE <<>>)
    \o BlankLine \o ExplainTail

MaxQueryLen == 2

\* texts of up to n characters
ExplainTexts(n) ==
  UNION {[1..k -> {"k", "z"}] : k \in 0..n}

\* the queries: short texts, and one that holds the marker itself
ExplainQueries ==
  (ExplainTexts(MaxQueryLen) \ {<<>>})
    \cup {<<"k">> \o ContextMarker \o <<"z">>}

\* what Context7 gives for the query: nothing, or some documentation
DocTexts == {<<>>, <<"d">>}

ExReady ==
  /\ ex_pc = "ready"
  /\ ex_q \in ExplainQueries
  /\ ex_c \in ExplainTexts(MaxQueryLen)
  /\ ex_message = <<>>
  /\ ex_query = <<>>
  /\ ex_context = <<>>
  /\ ex_call = <<>>
  /\ ex_prompt = <<>>

\* _call_explainer: query = f"{state['query']}\n\nContext from
\* research:\n{context}"; client.send_task(query)
ExplainerSend ==
  /\ ex_pc = "ready"
  /\ ex_message' = ex_q \o ContextSeparator \o ex_c
  /\ ex_pc' = "sent"
  /\ UNCHANGED <<ex_q, ex_c, ex_query, ex_context, ex_call, ex_prompt,
                 nonUtilVars, utilButEx>>

\* the handler's "Parse for context" block
ExplainerParse ==
  /\ ex_pc = "sent"
  /\ ex_query' = ParseContext(ex_message).query
  /\ ex_context' = ParseContext(ex_message).context
  /\ ex_pc' = "parsed"
  /\ UNCHANGED <<ex_q, ex_c, ex_message, ex_call, ex_prompt,
                 nonUtilVars, utilButEx>>

\* result = await agent.quick_explain(query); quick_explain calls
\* self.explain(query), whose context parameter then has its default ""
ExplainerExplain ==
  /\ ex_pc = "parsed"
  /\ \E doc_context \in DocTexts :
       LET call == [query |-> ex_query, context |-> <<>>]
       IN  /\ ex_call' = call
           /\ ex_prompt' = full_query(call.query, call.context, doc_context)
  /\ ex_pc' = "explained"
  /\ UNCHANGED <<ex_q, ex_c, ex_message, ex_query, ex_context,
                 nonUtilVars, utilButEx>>

ExInit ==
  /\ RunInit /\ SynIdle /\ SrvIdle /\ ExtIdle /\ StIdle /\ ConcIdle
  /\ ExReady /\ IdleButEx

SpecExplain ==
  ExInit /\ [][ExplainerSend \/ ExplainerParse \/ ExplainerExplain]_vars

\* ------------------------------------------------------- agents/knowledge
\* process chooses between storing and searching by the start of the task
\* text; each handler then takes the task text apart.

SearchTaskHead ==
  <<"S","e","a","r","c","h"," ","f","o","r"," ","r","e","l","e","v",
    "a","n","t"," ","i","n","f","o","r","m","a","t","i","o","n"," ",
    "a","b","o","u","t",":"," ">>

StoreTaskHead ==
  <<"S","t","o","r","e"," ","t","h","i","s"," ","r","e","s","e","a",
    "r","c","h"," ","f","i","n","d","i","n","g",":","\n","Q","u","e",
    "r","y",":"," ">>

StoreTaskAnswer ==
  <<"\n","A","n","s","w","e","r",":"," ">>

StoreWord == <<"s", "t", "o", "r", "e">>

SearchFor ==
  <<"s","e","a","r","c","h"," ","f","o","r">>

SearchWord ==
  <<"s","e","a","r","c","h">>

FindWord == <<"f", "i", "n", "d">>

LookFor ==
  <<"l","o","o","k"," ","f","o","r">>

SearchForRelevant ==
  <<"s","e","a","r","c","h"," ","f","o","r"," ","r","e","l","e","v",
    "a","n","t"," ","i","n","f","o","r","m","a","t","i","o","n"," ",
    "a","b","o","u","t",":">>

StoreQueryLabel == <<"Q", "u", "e", "r", "y", ":">>

AnswerLabel == <<"A", "n", "s", "w", "e", "r", ":">>

\* the list _handle_search goes through, in its order
CleanUpPrefixes ==
  <<SearchFor, SearchWord, FindWord, LookFor, SearchForRelevant>>

STORE_QUERY_PREVIEW == 100

\* the characters str.strip() removes
Whitespace == {" ", "\n", "\t", "\r"}

\* str.strip()
Strip(s) ==
  LET kept == {i \in 1..Len(s) : s[i] \notin Whitespace}
  IN  IF kept = {} THEN <<>>
      ELSE SubSeq(s, CHOOSE i \in kept : \A j \in kept : i <= j,
                     CHOOSE i \in kept : \A j \in kept : j <= i)

\* s[n:]
DropFirst(s, n) == SubSeq(s, n + 1, Len(s))

\* the choice of handler in process
Dispatch(task) ==
  LET query_lower == Lower(task)
  IN  IF StartsWith(query_lower, StoreWord) THEN "store"
      ELSE IF StartsWith(query_lower, SearchWord)
                \/ StartsWith(query_lower, FindWord) THEN "search"
      ELSE "search"

\* the clean-up loop of _handle_search from the k-th prefix on: the first
\* prefix the text starts with is cut off, and the loop ends there
RECURSIVE CleanUpFrom(_, _)
CleanUpFrom(search_query, k) ==
  IF k > Len(CleanUpPrefixes) THEN search_query
  ELSE IF StartsWith(Lower(search_query), CleanUpPrefixes[k])
         THEN Strip(DropFirst(search_query, Len(CleanUpPrefixes[k])))
  ELSE CleanUpFrom(search_query, k + 1)

CleanUp(task) == CleanUpFrom(task, 1)

\* the loop of _handle_store over lines[i..]: original_query and content
RECURSIVE StoreLoop(_, _, _)
StoreLoop(lines, i, original_query) ==
  IF i > Len(lines) THEN [original_query |-> original_query,
                          content |-> <<>>]
  ELSE IF StartsWith(lines[i], StoreQueryLabel)
         THEN StoreLoop(lines, i + 1, Strip(DropFirst(lines[i], 6)))
  ELSE IF StartsWith(lines[i], AnswerLabel)
         THEN [original_query |-> original_query,
               content |->
                 Strip(DropFirst(Join(<<"\n">>,
                                      SubSeq(lines, i, Len(lines))), 7))]
  ELSE StoreLoop(lines, i + 1, original_query)

\* what _handle_store gives to kb.store
StoreParse(task) ==
  LET parsed == StoreLoop(SplitLines(task), 1, <<>>)
  IN  [query |-> IF parsed.original_query = <<>>
                   THEN Prefix(task, STORE_QUERY_PREVIEW)
                   ELSE parsed.original_query,
       content |-> IF parsed.content = <<>> THEN task ELSE parsed.content]

\* the final answers the orchestrator stores
KnAnswers == {<<"a">>, <<"a", "\n", "b">>}

\* how direct requests start
DirectHeads ==
  {<<>>, SearchWord \o <<" ">>, <<"F", "i", "n", "d", " ">>,
   LookFor \o <<" ">>, <<"S", "T", "O", "R", "E", " ">>}

KnOrigins ==
  {[by |-> "check"]}
    \cup {[by |-> "store", answer |-> a] : a \in KnAnswers}
    \cup {[by |-> "direct", head |-> h] : h \in DirectHeads}

KnReady ==
  /\ kn_pc = "ready"
  /\ kn_origin \in KnOrigins
  /\ kn_q \in ExplainTexts(MaxQueryLen)
  /\ kn_task = <<>>
  /\ kn_handler = ""
  /\ kn_search = None
  /\ kn_store = None

\* the task texts: _check_knowledge, _synthesize's store, a direct request
KnowledgeSend ==
  /\ kn_pc = "ready"
  /\ kn_task' =
       IF kn_origin.by = "check" THEN SearchTaskHead \o kn_q
       ELSE IF kn_origin.by = "store"
         THEN StoreTaskHead \o kn_q \o StoreTaskAnswer \o kn_origin.answer
       ELSE kn_origin.head \o kn_q
  /\ kn_pc' = "sent"
  /\ UNCHANGED <<kn_origin, kn_q, kn_handler, kn_search, kn_store,
                 nonUtilVars, utilButKn>>

\* process up to the call of the handler
KnowledgeProcess ==
  /\ kn_pc = "sent"
  /\ kn_handler' = Dispatch(kn_task)
  /\ kn_pc' = "dispatched"
  /\ UNCHANGED <<kn_origin, kn_q, kn_task, kn_search, kn_store,
                 nonUtilVars, utilButKn>>

\* _handle_search up to kb.search
KnowledgeHandleSearch ==
  /\ kn_pc = "dispatched"
  /\ kn_handler = "search"
  /\ kn_search' = Some(CleanUp(kn_task))
  /\ kn_pc' = "handled"
  /\ UNCHANGED <<kn_origin, kn_q, kn_task, kn_handler, kn_store,
                 nonUtilVars, utilButKn>>

\* _handle_store up to kb.store
KnowledgeHandleStore ==
  /\ kn_pc = "dispatched"
  /\ kn_handler = "store"
  /\ kn_store' = Some(StoreParse(kn_task))
  /\ kn_pc' = "handled"
  /\ UNCHANGED <<kn_origin, kn_q, kn_task, kn_handler, kn_search,
                 nonUtilVars, utilButKn>>

KnInit ==
  /\ RunInit /\ SynIdle /\ SrvIdle /\ ExtIdle /\ StIdle /\ ConcIdle
  /\ KnReady /\ IdleButKn

SpecKnowledge ==
  KnInit /\ [][KnowledgeSend \/ KnowledgeProcess \/ KnowledgeHandleSearch
                 \/ KnowledgeHandleStore]_vars

\* ------------------------------------------------- shared/token_manager.py
\* Threads call the class methods and get_token.  A thread may be switched
\* out between any two statements, so every statement that reads or writes
\* shared state is a step of its own; what happens under a lock between two
\* such statements is one step.

TOKEN_REFRESH_BUFFER_SECONDS == 600

MaxTokenCalls == 5

TickSeconds == 300

MaxNow == 600

\* the settings objects passed to initialize
SettingsValues == {"s1", "s2"}

\* for how long the credential's tokens are good, in seconds
Lifetimes == {600, 1200}

NotInitializedMsg == <<"T","o","k","e","n","M","a","n","a","g","e","r"," ","n","o","t"," ","i","n","i","t","i","a","l","i","z","e","d",".">>
NoTokenLockErr == <<"n","o"," ","a","t","t","r","i","b","u","t","e"," ","'","_","t","o","k","e","n","_","l","o","c","k","'">>
NoneTokenErr == <<"'","N","o","n","e","T","y","p","e","'"," ","h","a","s"," ","n","o"," ","a","t","t","r","i","b","u","t","e"," ","'","t","o","k","e","n","'">>
CredentialErr == <<"c","r","e","d","e","n","t","i","a","l"," ","u","n","a","v","a","i","l","a","b","l","e">>

CachedToken(token, expires_at) == [token |-> token, expires_at |-> expires_at]

\* the object __new__ creates: _initialized is False, the other attributes
\* are not set yet (token_lock 0: no lock object)
NewObject ==
  [initialized |-> FALSE, settings |-> None, cached_token |-> None,
   token_lock |-> 0]

\* the object after a first __init__(settings)
InitializedObject(settings) ==
  [initialized |-> TRUE, settings |-> Some(settings), cached_token |-> None,
   token_lock |-> 1]

_is_token_valid(obj, now) ==
  IF obj.cached_token = None THEN FALSE
  ELSE now < obj.cached_token[1].expires_at - TOKEN_REFRESH_BUFFER_SECONDS

\* the thread t is at the statement `at` of its call
TmAt(t, at) == tm_thread[t].pc = at

\* the object the thread t works on
TmSelf(t) == tm_objs[tm_thread[t].self]

\* t goes on to the statement `to`
TmGoto(t, to) == tm_thread' = [tm_thread EXCEPT ![t].pc = to]

\* t starts a call
TmStart(t) ==
  /\ TmAt(t, "idle")
  /\ tm_started < MaxTokenCalls
  /\ tm_started' = tm_started + 1

\* an ended call, as the log keeps it: what it returned or raised, the
\* cached token of the object it returned, and for get_token what the
\* validity check said and which token the call fetched (0: none)
EndedCall(op, t, ret, cached) ==
  [op |-> op, thread |-> t, arg |-> tm_thread[t].arg, ret |-> ret,
   cached |-> cached, hit |-> tm_thread[t].hit, got |-> tm_thread[t].got]

\* the call of t ends with ret, leaving t with a reference to the object self
TmEnd(t, op, ret, self, cached) ==
  /\ tm_thread' = [tm_thread EXCEPT ![t] = [IdleThread EXCEPT !.self = self]]
  /\ tm_hist' = Append(tm_hist, EndedCall(op, t, ret, cached))

\* TokenManager(settings) or initialize(settings): the first test of __new__
NewEnter(t) ==
  /\ TmStart(t)
  /\ \E s \in SettingsValues :
       tm_thread' = [tm_thread EXCEPT
                       ![t].pc = IF tm_instance = None THEN "new_lock"
                                 ELSE "new_return",
                       ![t].arg = s]
  /\ UNCHANGED <<tm_instance, tm_lock, tm_objs, tm_held, tm_fetched, tm_now,
                 tm_hist, nonUtilVars, utilButTm>>

\* with cls._lock
NewLock(t) ==
  /\ TmAt(t, "new_lock")
  /\ tm_lock = None
  /\ tm_lock' = Some(t)
  /\ TmGoto(t, "new_create")
  /\ UNCHANGED <<tm_instance, tm_objs, tm_held, tm_fetched, tm_now,
                 tm_started, tm_hist, nonUtilVars, utilButTm>>

\* the second test of __new__ and the creation, up to leaving the lock
NewCreate(t) ==
  /\ TmAt(t, "new_create")
  /\ IF tm_instance = None
     THEN /\ tm_objs' = Append(tm_objs, NewObject)
          /\ tm_instance' = Some(Len(tm_objs) + 1)
     ELSE UNCHANGED <<tm_objs, tm_instance>>
  /\ tm_lock' = None
  /\ TmGoto(t, "new_return")
  /\ UNCHANGED <<tm_held, tm_fetched, tm_now, tm_started, tm_hist,
                 nonUtilVars, utilButTm>>

\* return cls._instance; __init__ runs on it unless it is None by now
NewReturn(t) ==
  /\ TmAt(t, "new_return")
  /\ IF tm_instance = None
     THEN TmEnd(t, "initialize", Return(0), tm_thread[t].self, None)
     ELSE /\ tm_thread' = [tm_thread EXCEPT ![t].pc = "init_check",
                                             ![t].self = tm_instance[1]]
          /\ UNCHANGED tm_hist
  /\ UNCHANGED <<tm_instance, tm_lock, tm_objs, tm_held, tm_fetched, tm_now,
                 tm_started, nonUtilVars, utilButTm>>

\* if self._initialized: return
InitCheck(t) ==
  /\ TmAt(t, "init_check")
  /\ IF TmSelf(t).initialized
     THEN TmEnd(t, "initialize", Return(tm_thread[t].self), tm_thread[t].self,
                TmSelf(t).cached_token)
     ELSE TmGoto(t, "init_settings") /\ UNCHANGED tm_hist
  /\ UNCHANGED <<tm_instance, tm_lock, tm_objs, tm_held, tm_fetched, tm_now,
                 tm_started, nonUtilVars, utilButTm>>

\* self._settings = settings
InitSettings(t) ==
  /\ TmAt(t, "init_settings")
  /\ tm_objs' = [tm_objs EXCEPT
                   ![tm_thread[t].self].settings = Some(tm_thread[t].arg)]
  /\ TmGoto(t, "init_cache")
  /\ UNCHANGED <<tm_instance, tm_lock, tm_held, tm_fetched, tm_now,
                 tm_started, tm_hist, nonUtilVars, utilButTm>>

\* self._cached_token = None
InitCache(t) ==
  /\ TmAt(t, "init_cache")
  /\ tm_objs' = [tm_objs EXCEPT ![tm_thread[t].self].cached_token = None]
  /\ TmGoto(t, "init_lock")
  /\ UNCHANGED <<tm_instance, tm_lock, tm_held, tm_fetched, tm_now,
                 tm_started, tm_hist, nonUtilVars, utilButTm>>

\* self._token_lock = threading.Lock(): a new lock object
InitLock(t) ==
  /\ TmAt(t, "init_lock")
  /\ tm_objs' = [tm_objs EXCEPT ![tm_thread[t].self].token_lock = @ + 1]
  /\ TmGoto(t, "init_done")
  /\ UNCHANGED <<tm_instance, tm_lock, tm_held, tm_fetched, tm_now,
                 tm_started, tm_hist, nonUtilVars, utilButTm>>

\* self._initialized = True, and the call returns the object
InitDone(t) ==
  /\ TmAt(t, "init_done")
  /\ tm_objs' = [tm_objs EXCEPT ![tm_thread[t].self].initialized = TRUE]
  /\ TmEnd(t, "initialize", Return(tm_thread[t].self), tm_thread[t].self,
           TmSelf(t).cached_token)
  /\ UNCHANGED <<tm_instance, tm_lock, tm_held, tm_fetched, tm_now,
                 tm_started, nonUtilVars, utilButTm>>

\* get_instance()
GetInstance(t) ==
  /\ TmStart(t)
  /\ IF tm_instance = None
     THEN TmEnd(t, "get_instance", Raise(NotInitializedMsg), tm_thread[t].self, None)
     ELSE TmEnd(t, "get_instance", Return(tm_instance[1]), tm_instance[1],
                tm_objs[tm_instance[1]].cached_token)
  /\ UNCHANGED <<tm_instance, tm_lock, tm_objs, tm_held, tm_fetched, tm_now,
                 nonUtilVars, utilButTm>>

\* reset(): with cls._lock
ResetLock(t) ==
  /\ TmStart(t)
  /\ tm_lock = None
  /\ tm_lock' = Some(t)
  /\ TmGoto(t, "reset")
  /\ UNCHANGED <<tm_instance, tm_objs, tm_held, tm_fetched, tm_now, tm_hist,
                 nonUtilVars, utilButTm>>

\* a reset that leaves the instance in place
Reset_keeping_instance(t) ==
  /\ TmAt(t, "reset")
  /\ tm_lock' = None
  /\ TmEnd(t, "reset", Return(0), tm_thread[t].self, None)
  /\ UNCHANGED <<tm_instance, tm_objs, tm_held, tm_fetched, tm_now,
                 tm_started, nonUtilVars, utilButTm>>

\* cls._instance = None, and the lock is left
Reset(t) ==
  /\ TmAt(t, "reset")
  /\ tm_instance' = None
  /\ tm_lock' = None
  /\ TmEnd(t, "reset", Return(0), tm_thread[t].self, None)
  /\ UNCHANGED <<tm_objs, tm_held, tm_fetched, tm_now, tm_started,
                 nonUtilVars, utilButTm>>

\* the token lock `lock` of the object obj is free
TokenLockFree(obj, lock) ==
  \A h \in tm_held : ~(h[1] = obj /\ h[2] = lock)

\* a get_token that does not take the token lock
GetTokenLock_not_taken(t) ==
  /\ TmStart(t)
  /\ tm_thread[t].self # 0
  /\ IF TmSelf(t).token_lock = 0
     THEN /\ TmEnd(t, "get_token", Raise(NoTokenLockErr), tm_thread[t].self, None)
          /\ UNCHANGED tm_held
     ELSE /\ tm_thread' = [tm_thread EXCEPT ![t].pc = "gt_check",
                                             ![t].lock = TmSelf(t).token_lock]
          /\ UNCHANGED <<tm_hist, tm_held>>
  /\ UNCHANGED <<tm_instance, tm_lock, tm_objs, tm_fetched, tm_now,
                 nonUtilVars, utilButTm>>

\* get_token() on the object the thread has: with self._token_lock, which
\* raises on an object whose __init__ has not set the lock yet
GetTokenLock(t) ==
  /\ TmStart(t)
  /\ tm_thread[t].self # 0
  /\ IF TmSelf(t).token_lock = 0
     THEN /\ TmEnd(t, "get_token", Raise(NoTokenLockErr), tm_thread[t].self, None)
          /\ UNCHANGED tm_held
     ELSE /\ TokenLockFree(tm_thread[t].self, TmSelf(t).token_lock)
          /\ tm_held' = tm_held \cup
                           {<<tm_thread[t].self, TmSelf(t).token_lock, t>>}
          /\ tm_thread' = [tm_thread EXCEPT ![t].pc = "gt_check",
                                             ![t].lock = TmSelf(t).token_lock]
          /\ UNCHANGED tm_hist
  /\ UNCHANGED <<tm_instance, tm_lock, tm_objs, tm_fetched, tm_now,
                 nonUtilVars, utilButTm>>

\* if not self._is_token_valid()
GetTokenCheck(t) ==
  /\ TmAt(t, "gt_check")
  /\ tm_thread' = [tm_thread EXCEPT
                     ![t].hit = _is_token_valid(TmSelf(t), tm_now),
                     ![t].pc = IF _is_token_valid(TmSelf(t), tm_now)
                               THEN "gt_return" ELSE "gt_refresh"]
  /\ UNCHANGED <<tm_instance, tm_lock, tm_objs, tm_held, tm_fetched, tm_now,
                 tm_started, tm_hist, nonUtilVars, utilButTm>>

\* _refresh_token() gives a token, and it is cached
GetTokenRefresh(t) ==
  /\ TmAt(t, "gt_refresh")
  /\ tm_fetched' = tm_fetched + 1
  /\ \E life \in Lifetimes :
       tm_objs' = [tm_objs EXCEPT ![tm_thread[t].self].cached_token =
                     Some(CachedToken(tm_fetched + 1, tm_now + life))]
  /\ tm_thread' = [tm_thread EXCEPT ![t].pc = "gt_return",
                                     ![t].got = tm_fetched + 1]
  /\ UNCHANGED <<tm_instance, tm_lock, tm_held, tm_now, tm_started, tm_hist,
                 nonUtilVars, utilButTm>>

\* the token lock the thread t took is left
TokenLockLeft(t) ==
  tm_held' = tm_held \ {<<tm_thread[t].self, tm_thread[t].lock, t>>}

\* _refresh_token() raises, and the exception leaves get_token
GetTokenRefreshRaises(t) ==
  /\ TmAt(t, "gt_refresh")
  /\ TokenLockLeft(t)
  /\ TmEnd(t, "get_token", Raise(CredentialErr), tm_thread[t].self, None)
  /\ UNCHANGED <<tm_instance, tm_lock, tm_objs, tm_fetched, tm_now,
                 tm_started, nonUtilVars, utilButTm>>

\* return self._cached_token.token, and the lock is left
GetTokenReturn(t) ==
  /\ TmAt(t, "gt_return")
  /\ TokenLockLeft(t)
  /\ IF TmSelf(t).cached_token = None
     THEN TmEnd(t, "get_token", Raise(NoneTokenErr), tm_thread[t].self, None)
     ELSE TmEnd(t, "get_token", Return(TmSelf(t).cached_token[1].token),
                tm_thread[t].self, TmSelf(t).cached_token)
  /\ UNCHANGED <<tm_instance, tm_lock, tm_objs, tm_fetched, tm_now,
                 tm_started, nonUtilVars, utilButTm>>

\* time passes
Tick ==
  /\ tm_objs # <<>>
  /\ tm_now + TickSeconds <= MaxNow
  /\ tm_now' = tm_now + TickSeconds
  /\ UNCHANGED <<tm_instance, tm_lock, tm_objs, tm_held, tm_fetched,
                 tm_thread, tm_started, tm_hist, nonUtilVars, utilButTm>>

\* the steps of TokenManager(settings) / initialize(settings)
InitializeNext(t) ==
  \/ NewEnter(t) \/ NewLock(t) \/ NewCreate(t) \/ NewReturn(t)
  \/ InitCheck(t) \/ InitSettings(t) \/ InitCache(t) \/ InitLock(t)
  \/ InitDone(t)

\* the steps of get_token()
GetTokenNext(t) ==
  \/ GetTokenLock(t) \/ GetTokenCheck(t) \/ GetTokenRefresh(t)
  \/ GetTokenRefreshRaises(t) \/ GetTokenReturn(t)

TmInit ==
  /\ RunInit /\ SynIdle /\ SrvIdle /\ ExtIdle /\ StIdle /\ ConcIdle
  /\ TmIdle /\ IdleButTm

\* threads that initialize the singleton and use it, in any interleaving
SpecSingleton ==
  TmInit /\ [][\E t \in Threads :
                 InitializeNext(t) \/ GetInstance(t) \/ GetTokenNext(t)]_vars

\* the class after one initialize("s1") call, each thread with the instance
TmInitialized ==
  /\ RunInit /\ SynIdle /\ SrvIdle /\ ExtIdle /\ StIdle /\ ConcIdle /\ IdleButTm
  /\ tm_instance = Some(1)
  /\ tm_lock = None
  /\ tm_objs = <<InitializedObject("s1")>>
  /\ tm_held = {}
  /\ tm_fetched = 0
  /\ tm_now = 0
  /\ tm_thread = [t \in Threads |-> [IdleThread EXCEPT !.self = 1]]
  /\ tm_started = 1
  /\ tm_hist = <<[op |-> "initialize", thread |-> 1, arg |-> "s1",
                  ret |-> Return(1), cached |-> None, hit |-> FALSE,
                  got |-> 0]>>

\* threads that call get_token on one initialised instance while time passes
SpecGetToken ==
  TmInitialized /\ [][Tick \/ \E t \in Threads : GetTokenNext(t)]_vars

\* one thread that calls initialize, get_instance, reset and get_token, one
\* call after the other
SpecLifecycle ==
  TmInit /\ [][InitializeNext(1) \/ GetInstance(1) \/ ResetLock(1) \/ Reset(1)
                 \/ GetTokenNext(1)]_vars

\* ------------------------------------------------------------- properties

\* the operations of the calls issued so far, in order
Ops == [i \in 1..Len(calls) |-> calls[i].op]

Called(op) == InList(op, Ops)

IsSpecialistOp(op) == op \in {"search", "research", "explain"}

\* the specialist calls issued so far, in order
SpecialistOps == SelectSeq(Ops, IsSpecialistOp)

\* the specialist calls are over: run is at synthesis or past it
AtOrPastSynthesis == pc \in {"synthesize", "END", "raised", "returned"}

\* the run went from check_knowledge to synthesize without call_research
TookSufficient ==
  /\ AtOrPastSynthesis
  /\ InList("check_knowledge", path)
  /\ ~InList("call_research", path)

ExpectedSpecialistOps(r, sufficient) ==
  (IF r.check_knowledge_first THEN <<"search">> ELSE <<>>)
  \o (IF InList(RESEARCH, r.agents) /\ ~sufficient THEN <<"research">> ELSE <<>>)
  \o (IF InList(EXPLAINER, r.agents) /\ ~sufficient THEN <<"explain">> ELSE <<>>)

\* C1: after a successful routing R, the knowledge search is called iff
\* R.check_knowledge_first; research iff RESEARCH is in R.agents and the
\* sufficient edge was not taken; explainer iff EXPLAINER is in R.agents and
\* the sufficient edge was not taken; these are the only specialist calls
\* made, in this order, and KNOWLEDGE in R.agents plays no part.
C1_CallsFollowRouting ==
  /\ (routing # None /\ pc \in {"call_research", "call_explainer"})
       => (Called("search") <=> routing[1].check_knowledge_first)
  /\ (routing # None /\ AtOrPastSynthesis)
       => SpecialistOps = ExpectedSpecialistOps(routing[1], TookSufficient)
  /\ (pc = "synthesize" /\ ~InList("synthesize", path))
       => (~Called("synthesize") /\ ~Called("store"))

C1_Witness ==
  /\ pc = "returned"
  /\ routing # None
  /\ routing[1].agents = <<KNOWLEDGE, EXPLAINER>>
  /\ routing[1].check_knowledge_first
  /\ SpecialistOps = <<"search", "explain">>

\* the node entered right after check_knowledge, "" while none was
AfterCheckKnowledge ==
  IF \E i \in 1..(Len(path) - 1) : path[i] = "check_knowledge"
  THEN path[(CHOOSE i \in 1..(Len(path) - 1) : path[i] = "check_knowledge") + 1]
  ELSE ""

\* the sufficiency test as the claim words it
LongHit(kr) ==
  /\ kr # None
  /\ kr[1] # <<>>
  /\ Len(kr[1]) > 100
  /\ ~Contains(Lower(kr[1]), NoRelevant)

\* C2: with check_knowledge_first, a knowledge result that is non-empty,
\* strictly longer than 100 characters and free of "no relevant" (in any
\* case) sends the workflow from CHECK_KNOWLEDGE straight to SYNTHESIZE, and
\* research and explainer are never invoked; every other result (or a failed
\* search) sends it to CALL_RESEARCH.
C2_SufficientSkipsAgents ==
  (InList("check_knowledge", path) /\ pc # "check_knowledge") =>
     IF LongHit(knowledge_result)
     THEN /\ ~Called("research") /\ ~Called("explain")
          /\ ~InList("call_research", path) /\ ~InList("call_explainer", path)
          /\ AtOrPastSynthesis
          /\ AfterCheckKnowledge \in {"", "synthesize"}
     ELSE /\ AfterCheckKnowledge \in {"", "call_research"}
          /\ (AfterCheckKnowledge = "" => pc = "call_research")

C2_Witness ==
  /\ pc = "returned"
  /\ knowledge_result = Some(Filler(101))
  /\ InList(RESEARCH, routing[1].agents)
  /\ path = <<"route_query", "check_knowledge", "synthesize">>

\* C3: when the router call raises with message m, run returns exactly
\* "Error: Routing failed: m" with no sources and no agents used, the
\* workflow goes from ROUTE to the end, and no other call is made.
C3_RoutingFailureIsTerminal ==
  (Len(outcomes) >= 1 /\ outcomes[1].kind = "raise") =>
     /\ error = Some(RoutingFailedPrefix \o outcomes[1].v.str)
     /\ pc \in {"END", "returned"}
     /\ path = <<"route_query">>
     /\ Ops = <<"route">>
     /\ pc = "returned" =>
          response = Some(SynthesizedResponse(
                       ErrorPrefix \o RoutingFailedPrefix \o outcomes[1].v.str,
                       <<>>, <<>>))

C3_Witness ==
  /\ pc = "returned"
  /\ outcomes = <<Raise(RouterErr)>>
  /\ response[1].answer = ErrorPrefix \o RoutingFailedPrefix \o RouterErr

\* the routing names neither research nor explainer
NoAgentRouted ==
  /\ routing # None
  /\ ~InList(RESEARCH, routing[1].agents)
  /\ ~InList(EXPLAINER, routing[1].agents)

NoInfoResponse == SynthesizedResponse(NoInfoAnswer, <<>>, <<>>)

\* C4 as claimed: a routing that names neither research nor explainer always
\* ends in the fixed "couldn't find" answer, whatever check_knowledge_first
\* and the knowledge outcome are.
C4_Original ==
  (pc = "returned" /\ NoAgentRouted) => response = Some(NoInfoResponse)

\* C4, amended: for a routing that names neither research nor explainer,
\* run returns the fixed "couldn't find" answer with no sources and no agents
\* used when check_knowledge_first is false or the knowledge search fails;
\* when the search returns content c, run returns c with sources and
\* agents_used both ["knowledge"].
C4_NoAgentRouted ==
  (pc = "returned" /\ NoAgentRouted) =>
     /\ (~routing[1].check_knowledge_first => knowledge_result = None)
     /\ IF knowledge_result = None
        THEN response = Some(NoInfoResponse)
        ELSE response = Some(SynthesizedResponse(knowledge_result[1],
                                                 <<KNOWLEDGE>>, <<KNOWLEDGE>>))

C4_Witness ==
  /\ pc = "returned"
  /\ routing # None
  /\ routing[1].agents = <<KNOWLEDGE>>
  /\ routing[1].check_knowledge_first
  /\ Len(outcomes) >= 2 /\ outcomes[2].kind = "raise"
  /\ response = Some(NoInfoResponse)

\* C5: when agent_responses is empty on entry to SYNTHESIZE, the final
\* response is the fixed "couldn't find" answer with no sources and no agents
\* used, the synthesizer model is not called and no store task is sent.
C5_EmptySynthesisShortCircuits ==
  (InList("synthesize", path) /\ agent_responses = <<>>) =>
     /\ pc \in {"END", "returned"}
     /\ final_response = Some(NoInfoResponse)
     /\ ~Called("synthesize") /\ ~Called("store")
     /\ pc = "returned" => response = Some(NoInfoResponse)

C5_Witness ==
  /\ pc = "returned"
  /\ agent_responses = <<>>
  /\ routing # None /\ routing[1].agents = <<>>
  /\ path = <<"route_query", "call_research", "synthesize">>

\* the positions of the successful responses
SuccessPositions(rs) == {i \in 1..Len(rs) : rs[i].success}

\* the names of the successful responses, in order
RECURSIVE SuccessNames(_)
SuccessNames(rs) ==
  IF rs = <<>> THEN <<>>
  ELSE (IF Head(rs).success THEN <<Head(rs).agent_name>> ELSE <<>>)
       \o SuccessNames(Tail(rs))

\* C6: for a list with exactly one successful response, synthesize returns
\* that response's content unchanged as answer and its agent name as the only
\* source, and makes no model call, wherever the failed responses stand.
C6_SingleSuccessVerbatim ==
  (syn_pc # "idle" /\ Cardinality(SuccessPositions(syn_responses)) = 1) =>
     LET i == CHOOSE i \in SuccessPositions(syn_responses) : TRUE IN
     /\ syn_pc \in {"ready", "done"}
     /\ syn_prompt = None
     /\ syn_pc = "done" =>
          /\ syn_result # None
          /\ syn_result[1].answer = syn_responses[i].content
          /\ syn_result[1].sources = <<syn_responses[i].agent_name>>

C6_Witness ==
  /\ syn_pc = "done"
  /\ syn_responses = <<AgentResponse(RESEARCH, <<>>, FALSE, Some(TimeoutErr)),
                       AgentResponse(EXPLAINER, ExplainerContent, TRUE, None),
                       AgentResponse(KNOWLEDGE, StaleContent, FALSE, None)>>
  /\ syn_result[1].answer = ExplainerContent

DistinctNames(rs) ==
  \A i, j \in 1..Len(rs) : rs[i].agent_name = rs[j].agent_name => i = j

\* C7: whichever branch synthesize takes, sources is the names of the
\* successful responses in their order and agents_used is the names of all
\* responses in their order; a failed response gives no source (with distinct
\* names its name is absent from sources), its content is never the answer,
\* and in the prompt it is rendered as "Error: {error}", not by its content.
C7_SourcesAndAgentsUsed ==
  /\ syn_result # None =>
       /\ syn_result[1].sources = SuccessNames(syn_responses)
       /\ syn_result[1].agents_used =
            [i \in 1..Len(syn_responses) |-> syn_responses[i].agent_name]
       /\ DistinctNames(syn_responses) =>
            \A i \in 1..Len(syn_responses) :
               ~syn_responses[i].success =>
                  ~InList(syn_responses[i].agent_name, syn_result[1].sources)
       /\ syn_prompt = None =>
            \E i \in SuccessPositions(syn_responses) :
               syn_result[1].answer = syn_responses[i].content
  /\ syn_prompt # None =>
       \A i \in 1..Len(syn_responses) :
          ~syn_responses[i].success =>
             /\ Contains(syn_prompt[1],
                         HeaderOpen \o syn_responses[i].agent_name \o HeaderClose
                         \o ErrorPrefix \o FormatOptional(syn_responses[i].error))
             /\ syn_responses[i].content # <<>> =>
                  ~Contains(syn_prompt[1], syn_responses[i].content)

C7_Witness ==
  /\ syn_pc = "done"
  /\ syn_prompt # None
  /\ syn_responses = <<AgentResponse(KNOWLEDGE, StaleContent, FALSE, None),
                       AgentResponse(RESEARCH, ResearchContent, TRUE, None),
                       AgentResponse(EXPLAINER, ExplainerContent, TRUE, None)>>
  /\ syn_result[1].sources = <<RESEARCH, EXPLAINER>>

\* the node entered right after the first entry of `node`, "" while none was
NodeAfter(node) ==
  IF \E i \in 1..(Len(path) - 1) : path[i] = node
  THEN path[(CHOOSE i \in 1..(Len(path) - 1) : path[i] = node) + 1]
  ELSE ""

\* the workflow went, or is about to go, from `node` to `target`
GoesTo(node, target) ==
  /\ NodeAfter(node) \in {"", target}
  /\ NodeAfter(node) = "" => pc = target

\* the knowledge search was issued and failed: send_task raised, or the
\* envelope's text was no string
SearchFailed ==
  /\ Len(outcomes) >= 2
  /\ calls[2].op = "search"
  /\ (outcomes[2].kind = "raise" \/ outcomes[2] = Return(OkEnvelope(JNull)))

IsKnowledgeEntry(r) == r.agent_name = KNOWLEDGE

\* a research or explainer call succeeded
LaterSuccess == \E i \in 1..Len(agent_responses) :
                   /\ agent_responses[i].success
                   /\ agent_responses[i].agent_name \in {RESEARCH, EXPLAINER}

IsResearchEntry(r) == r.agent_name = RESEARCH
IsExplainerEntry(r) == r.agent_name = EXPLAINER

\* C9: when the research (explainer) call raises with text e, exactly one
\* AgentResponse for that agent is appended, with success false, empty
\* content and error e; error stays unset and the workflow continues, from
\* research to the explainer iff it is routed and otherwise to synthesis,
\* from the explainer to synthesis.
C9_FailedCallIsRecorded ==
  \A i \in 1..Len(outcomes) :
     /\ (calls[i].op = "research" /\ outcomes[i].kind = "raise") =>
          /\ SelectSeq(agent_responses, IsResearchEntry)
               = <<AgentResponse(RESEARCH, <<>>, FALSE, Some(outcomes[i].v.str))>>
          /\ research_result = None
          /\ error = None
          /\ GoesTo("call_research",
                    IF InList(EXPLAINER, routing[1].agents)
                    THEN "call_explainer" ELSE "synthesize")
     /\ (calls[i].op = "explain" /\ outcomes[i].kind = "raise") =>
          /\ SelectSeq(agent_responses, IsExplainerEntry)
               = <<AgentResponse(EXPLAINER, <<>>, FALSE, Some(outcomes[i].v.str))>>
          /\ agent_responses[Len(agent_responses)].agent_name = EXPLAINER
          /\ explainer_result = None
          /\ error = None
          /\ GoesTo("call_explainer", "synthesize")

C9_Witness ==
  /\ pc = "returned"
  /\ Ops = <<"route", "research", "explain", "synthesize">>
  /\ outcomes[2] = Raise(TimeoutErr)
  /\ outcomes[3] = Raise(StatusErr)
  /\ Len(agent_responses) = 2

\* C10: the message sent to the explainer is the query, the separator
\* "\n\nContext from research:\n", then the research result, which is the
\* empty string when research was skipped or failed.
C10_ExplainerMessage ==
  \A i \in 1..Len(calls) :
     calls[i].op = "explain" =>
        calls[i].message =
          query \o ContextSeparator
          \o (IF research_result = None THEN <<>> ELSE research_result[1])

\* the call with operation `op` was issued and has resolved
Resolved(op) == \E i \in 1..Len(outcomes) : calls[i].op = op

\* how the call with operation `op` resolved
OutcomeOf(op) == outcomes[CHOOSE i \in 1..Len(outcomes) : calls[i].op = op]

\* the call with operation `op`
CallOf(op) == calls[CHOOSE i \in 1..Len(calls) : calls[i].op = op]

\* the call with operation `op` returned the success envelope with text c
Succeeded(op, c) == Resolved(op) /\ OutcomeOf(op) = Return(OkEnvelope(JStr(c)))

\* the call with operation `op` raised
Failed(op) == Resolved(op) /\ OutcomeOf(op).kind = "raise"

\* C11: routed to research then explainer with no knowledge response
\* recorded, when the research call fails and the explainer call succeeds
\* with content c, run returns answer c without a synthesizer model call,
\* sources = <<explainer>> and agents_used = <<research, explainer>>.
C11_ScenarioB ==
  \A c \in {ExplainerContent} :
    ( /\ pc = "returned"
      /\ routing # None /\ routing[1].agents = <<RESEARCH, EXPLAINER>>
      /\ SelectSeq(agent_responses, IsKnowledgeEntry) = <<>>
      /\ Failed("research")
      /\ Succeeded("explain", c) )
    => /\ response = Some(SynthesizedResponse(c, <<EXPLAINER>>,
                                              <<RESEARCH, EXPLAINER>>))
       /\ ~Called("synthesize")

C11_Witness ==
  /\ pc = "returned"
  /\ routing # None /\ routing[1].agents = <<RESEARCH, EXPLAINER>>
  /\ Ops = <<"route", "search", "research", "explain", "store">>
  /\ Failed("search") /\ Failed("research")
  /\ OutcomeOf("research") = Raise(TimeoutErr)
  /\ Succeeded("explain", ExplainerContent)
  /\ response[1].answer = ExplainerContent

\* research and explainer both returned content
BothSucceeded ==
  \E r \in {ResearchContent}, x \in {ExplainerContent} :
     Succeeded("research", r) /\ Succeeded("explain", x)

\* C12: routed to research then explainer with check_knowledge_first, when
\* the knowledge search succeeds with an insufficient result, the knowledge
\* response is appended although insufficient and the specialist calls are
\* knowledge search, research, explainer in this order; when research and
\* explainer return content, the explainer's message contains the research
\* content, the synthesizer is called next, and the final response (there is
\* one unless the synthesizer fails) has agents_used = <<knowledge, research,
\* explainer>> and all three names in sources.
C12_ScenarioA ==
  ( /\ routing # None
    /\ routing[1].agents = <<RESEARCH, EXPLAINER>>
    /\ routing[1].check_knowledge_first
    /\ Resolved("search") /\ OutcomeOf("search").kind = "return"
    /\ knowledge_result # None
    /\ _knowledge_sufficient(knowledge_result) = "need_more" )
  => /\ agent_responses # <<>>
     /\ agent_responses[1] = AgentResponse(KNOWLEDGE, knowledge_result[1], TRUE, None)
     /\ \E n \in 0..2 :
           SpecialistOps = SubSeq(<<"search", "research", "explain">>, 1, 1 + n)
     /\ AtOrPastSynthesis => SpecialistOps = <<"search", "research", "explain">>
     /\ (pc \in {"END", "returned"} /\ final_response # None) =>
           final_response[1].agents_used = <<KNOWLEDGE, RESEARCH, EXPLAINER>>
     /\ BothSucceeded =>
           /\ Contains(CallOf("explain").message, ResearchContent)
           /\ \E n \in 0..2 :
                 Ops = SubSeq(<<"route", "search", "research", "explain",
                                "synthesize", "store">>, 1, 4 + n)
           /\ (pc \in {"END", "returned"} /\ exc = None) =>
                 /\ Ops = <<"route", "search", "research", "explain",
                            "synthesize", "store">>
                 /\ final_response # None
                 /\ \A a \in {KNOWLEDGE, RESEARCH, EXPLAINER} :
                       InList(a, final_response[1].sources)
                 /\ (pc = "returned" => response = final_response)

C12_Witness ==
  /\ pc = "returned"
  /\ routing # None
  /\ routing[1].agents = <<RESEARCH, EXPLAINER>>
  /\ Succeeded("search", ShortHit)
  /\ Succeeded("research", ResearchContent)
  /\ Succeeded("explain", ExplainerContent)
  /\ CallOf("explain").message = query \o ContextSeparator \o ResearchContent
  /\ response[1].sources = <<KNOWLEDGE, RESEARCH, EXPLAINER>>

IsStoreCall(c) == c.op = "store"

\* C13: after every synthesis that returns, exactly one store task, for the
\* query and the synthesized answer, is sent to the knowledge specialist,
\* after synthesis and resolved before run returns; whether it succeeds or
\* fails, run returns the synthesized response and error stays unset.
C13_StoreIsBestEffort ==
  /\ final # None =>
       /\ SelectSeq(calls, IsStoreCall)
            = <<Call("store", "knowledge", StoreMessage(query, final[1].answer))>>
       /\ calls[Len(calls)].op = "store"
       /\ InList("synthesize", path)
       /\ error = None
  /\ (Resolved("store") /\ pc # "synthesize") =>
       /\ pc \in {"END", "returned"}
       /\ exc = None /\ error = None
       /\ final # None /\ final_response = final
       /\ pc = "returned" => response = final
  /\ pc = "returned" => Len(outcomes) = Len(calls)

C13_Witness ==
  /\ pc = "returned"
  /\ Resolved("store") /\ OutcomeOf("store") = Raise(ConnectErr)
  /\ Called("synthesize")
  /\ response = Some(SynthesizedResponse(ModelAnswer, <<RESEARCH, EXPLAINER>>,
                                         <<RESEARCH, EXPLAINER>>))

\* the synthesizer's model call was made and raised
SynthesizerFailed == Failed("synthesize")

\* C14: when the synthesizer's model call fails during run, no answer is
\* built from the agent responses: run returns "Error: " followed by the
\* exception text with empty sources and agents_used, no store task is sent,
\* and /a2a answers with a result envelope (no error member) whose text is
\* that answer.
C14_SynthesisFailureIsFatal ==
  SynthesizerFailed =>
     /\ ~Called("store")
     /\ final = None /\ final_response = None
     /\ pc \in {"raised", "returned"}
     /\ pc = "returned" =>
          /\ response = Some(SynthesizedResponse(
                               ErrorPrefix \o OutcomeOf("synthesize").v.str,
                               <<>>, <<>>))
          /\ StartsWith(response[1].answer, ErrorPrefix)
     /\ srv_pc = "replied" =>
          /\ HasKey(srv_reply[1].v, K_result)
          /\ ~HasKey(srv_reply[1].v, K_error)
          /\ _extract_content(srv_reply[1]) = JStr(response[1].answer)
          /\ DictGet(DictGet(srv_reply[1].v, K_result, JNull).v, K_metadata, JNull)
               = JDict(<< <<K_sources, JList(<<>>)>>,
                          <<K_agents_used, JList(<<>>)>> >>)

C14_Witness ==
  /\ srv_pc = "replied"
  /\ SynthesizerFailed
  /\ Len(agent_responses) = 3
  /\ _extract_content(srv_reply[1]) = JStr(ErrorPrefix \o ModelErr)

Nodes == {"route_query", "check_knowledge", "call_research", "call_explainer",
          "synthesize"}

\* no exception is left unanswered and every node is entered at most once
RunIsWellFormed ==
  /\ \A i \in 1..Len(path) : path[i] \in Nodes
  /\ \A i, j \in 1..Len(path) : path[i] = path[j] => i = j
  /\ pc = "END" => (OptTruthy(error) \/ final_response # None)
  /\ pc = "raised" => exc # None
  /\ pc = "returned" =>
       /\ response # None
       /\ response[1].answer # NoResponseAnswer
       /\ response[1] = IF exc # None THEN RunExcept(exc[1])
                        ELSE IF OptTruthy(error)
                        THEN SynthesizedResponse(ErrorPrefix \o error[1], <<>>, <<>>)
                        ELSE final_response[1]

\* C15: whatever the router, the specialists, the synthesizer and the store
\* call do, run enters each node at most once, terminates, and returns a
\* SynthesizedResponse without raising; when the graph ends, error or
\* final_response is set, so "No response generated." is never the answer.
C15_RunTerminates ==
  /\ []RunIsWellFormed
  /\ (pc # "idle") ~> (pc = "returned")

C15_Witness ==
  /\ pc = "returned"
  /\ path = <<"route_query", "check_knowledge", "call_research",
              "call_explainer", "synthesize">>
  /\ Failed("search") /\ Failed("research")
  /\ Succeeded("explain", ExplainerContent)
  /\ Failed("store")

\* the response recorded for the specialist call with operation `op`
EntriesFor(op) ==
  CASE op = "search" -> SelectSeq(agent_responses, IsKnowledgeEntry)
    [] op = "research" -> SelectSeq(agent_responses, IsResearchEntry)
    [] op = "explain" -> SelectSeq(agent_responses, IsExplainerEntry)

\* C16: a specialist answering with a JSON-RPC error envelope is recorded
\* like a transport error: for research and explainer one unsuccessful
\* AgentResponse with a non-empty error, for the knowledge search no result
\* and no successful response; error stays unset and the workflow continues.
C16_ErrorEnvelopeIsFailure ==
  \A i \in 1..Len(outcomes) :
     (IsSpecialistOp(calls[i].op) /\ outcomes[i] = Return(ErrorEnvelope)) =>
        /\ error = None
        /\ \A k \in 1..Len(EntriesFor(calls[i].op)) :
              /\ ~EntriesFor(calls[i].op)[k].success
              /\ OptTruthy(EntriesFor(calls[i].op)[k].error)
        /\ calls[i].op = "search" => knowledge_result = None
        /\ calls[i].op \in {"research", "explain"} =>
              Len(EntriesFor(calls[i].op)) = 1

\* result.message.parts[0].text exists in the envelope
TextPathExists(env) ==
  /\ env.t = "dict" /\ HasKey(env.v, K_result)
  /\ LET r == DictGet(env.v, K_result, JNull) IN
     /\ r.t = "dict" /\ HasKey(r.v, K_message)
     /\ LET m == DictGet(r.v, K_message, JNull) IN
        /\ m.t = "dict" /\ HasKey(m.v, K_parts)
        /\ LET p == DictGet(m.v, K_parts, JNull) IN
           /\ p.t = "list" /\ p.v # <<>>
           /\ p.v[1].t = "dict" /\ HasKey(p.v[1].v, K_text)

\* the value at result.message.parts[0].text
TextAtPath(env) ==
  DictGet(DictGet(DictGet(DictGet(env.v, K_result, JNull).v,
                          K_message, JNull).v,
                  K_parts, JNull).v[1].v,
          K_text, JNull)

\* C17: content extraction returns result.message.parts[0].text when that
\* path exists, and the string form of the raw envelope for every envelope
\* in which it is absent.
C17_ExtractionFallsBackToRaw ==
  ext_pc = "done" =>
     ext_output = IF TextPathExists(ext_input) THEN TextAtPath(ext_input)
                  ELSE JStr(Repr(ext_input))

AllOps == {"route", "search", "research", "explain", "synthesize", "store"}

\* the positions in calls of the calls with operation `op`
CallsOf(op) == {i \in 1..Len(calls) : calls[i].op = op}

\* C18: in one run, whatever fails, the router, the knowledge search,
\* research, the explainer, the synthesizer and the knowledge store are each
\* called at most once; no call is issued a second time after it failed.
C18_NoRetry ==
  /\ \A i \in 1..Len(calls) : calls[i].op \in AllOps
  /\ \A op \in AllOps : Cardinality(CallsOf(op)) <= 1
  /\ \A i \in 1..Len(outcomes) :
        outcomes[i].kind = "raise" =>
           \A j \in (i + 1)..Len(calls) :
              calls[j].op # calls[i].op /\ calls[j].message # calls[i].message

C18_Witness ==
  /\ pc = "returned"
  /\ Ops = <<"route", "search", "research", "explain", "synthesize">>
  /\ Failed("search") /\ Failed("research") /\ Failed("explain")
  /\ Failed("synthesize")

\* the place of a remote call in the order of one request
OpRank(op) ==
  CASE op = "route" -> 1
    [] op = "search" -> 2
    [] op = "research" -> 3
    [] op = "explain" -> 4
    [] op = "synthesize" -> 5
    [] op = "store" -> 6

\* the calls cs with outcomes outs and the call in flight inf are sequential:
\* every call but the one in flight has resolved, and the calls were started
\* in the order of OpRank
Sequential(cs, outs, inf) ==
  /\ Len(cs) = Len(outs) + (IF inf = None THEN 0 ELSE 1)
  /\ inf # None => inf[1] = cs[Len(cs)]
  /\ \A i \in 1..Len(cs) : cs[i].op \in AllOps
  /\ \A i \in 1..Len(cs) : \A j \in (i + 1)..Len(cs) :
        OpRank(cs[i].op) < OpRank(cs[j].op)

\* the call `later` of cs was started only when every call `earlier` of cs
\* had resolved: while `later` is unresolved it is the only unresolved call
StartedAfter(cs, outs, earlier, later) ==
  \A i \in 1..Len(cs) : \A j \in 1..Len(cs) :
     (cs[i].op = earlier /\ cs[j].op = later) => (i < j /\ i <= Len(outs))

\* C19: within one request (run or stream) at most one remote call is in
\* flight, a call starts only after the previous one has resolved, in the
\* order router, knowledge search, research, explainer, synthesizer, then (in
\* run only) knowledge store; the explainer call never starts before the
\* research call has resolved, nor the research call before the search has.
C19_CallsAreSequential ==
  /\ Sequential(calls, outcomes, inflight)
  /\ Sequential(st_calls, st_outcomes, st_inflight)
  /\ \A i \in 1..Len(st_calls) : st_calls[i].op # "store"
  /\ StartedAfter(calls, outcomes, "research", "explain")
  /\ StartedAfter(calls, outcomes, "search", "research")
  /\ StartedAfter(st_calls, st_outcomes, "research", "explain")
  /\ StartedAfter(st_calls, st_outcomes, "search", "research")

\* stream has its explainer call in flight after the router, the knowledge
\* search and research have resolved
C19_Witness ==
  /\ Len(st_calls) = 4 /\ Len(st_outcomes) = 3
  /\ st_inflight # None /\ st_inflight[1].op = "explain"
  /\ st_calls[2].op = "search" /\ st_calls[3].op = "research"

\* the two concurrent requests
Requests == <<IF cur = 1 THEN Frame ELSE parked, IF cur = 2 THEN Frame ELSE parked>>

\* every task request f has sent was made from f's own query and results
OwnCalls(f) ==
  /\ \A i \in 1..Len(f.calls) :
        f.calls[i].message =
          CASE f.calls[i].op = "route" -> RoutingPrompt(f.query)
            [] f.calls[i].op = "search" -> SearchMessage(f.query)
            [] f.calls[i].op = "research" -> f.query
            [] f.calls[i].op = "explain" -> ExplainerMessage(f.query, f.research_result)
            [] OTHER -> f.calls[i].message
  /\ \A i \in 1..Len(f.st_calls) :
        f.st_calls[i].message =
          CASE f.st_calls[i].op = "route" -> RoutingPrompt(f.st_query)
            [] f.st_calls[i].op = "search" -> SearchMessage(f.st_query)
            [] f.st_calls[i].op = "research" -> f.st_query
            [] f.st_calls[i].op = "explain" ->
                 StreamExplainerMessage(f.st_query, ResearchContext(f.st_responses))
            [] OTHER -> f.st_calls[i].message

\* requests f and g were given the same query and the same outcomes and
\* have come equally far
SameInputs(f, g) ==
  /\ f.query = g.query /\ f.outcomes = g.outcomes
  /\ f.pc = g.pc /\ (f.inflight = None) = (g.inflight = None)
  /\ f.st_query = g.st_query /\ f.st_outcomes = g.st_outcomes
  /\ f.st_pc = g.st_pc /\ (f.st_inflight = None) = (g.st_inflight = None)
  /\ Len(f.st_events) = Len(g.st_events)

\* the state of each request is a function of its own inputs
C20_OwnState ==
  /\ OwnCalls(Requests[1]) /\ OwnCalls(Requests[2])
  /\ Sequential(Requests[1].calls, Requests[1].outcomes, Requests[1].inflight)
  /\ Sequential(Requests[2].calls, Requests[2].outcomes, Requests[2].inflight)
  /\ SameInputs(Requests[1], Requests[2]) => Requests[1] = Requests[2]

\* a step of the running request leaves the suspended one as it was, and a
\* switch resumes the suspended one exactly as it was left
C20_Untouched ==
  IF cur' = cur THEN parked' = parked
  ELSE parked' = Frame /\ Frame' = parked

\* C20: two requests served at once on the same object are independent, for
\* every interleaving at their suspension points: each works on its own
\* state, its calls and its result (answer, sources, agents_used, events)
\* depend only on its own query and the outcomes of its own calls, and no
\* step of one reads or writes the other's state or response list.
C20_ConcurrentRequestsAreIndependent == []C20_OwnState /\ [][C20_Untouched]_vars

\* two runs with different queries are both waiting in send_task, the
\* running one with a response already in its list, the other with none
C20_Witness ==
  /\ inflight # None /\ parked.inflight # None
  /\ query # parked.query
  /\ agent_responses # <<>> /\ parked.agent_responses = <<>>

\* the specialist a call of operation `op` goes to
OpAgent(op) ==
  CASE op = "search" -> KNOWLEDGE
    [] op = "research" -> RESEARCH
    [] op = "explain" -> EXPLAINER

\* the specialists called so far, in call order
SpecialistsCalled == [i \in 1..Len(SpecialistOps) |-> OpAgent(SpecialistOps[i])]

\* C21: in a run that has reached synthesis, agent_responses holds one
\* AgentResponse per specialist call made (the knowledge search included), in
\* call order, whether the call succeeded or failed; the response synthesis
\* builds names every specialist called in agents_used.
C21_OneResponsePerCall ==
  AtOrPastSynthesis =>
     /\ AgentNames(agent_responses) = SpecialistsCalled
     /\ (pc = "returned" /\ exc = None /\ error = None) =>
           response[1].agents_used = SpecialistsCalled

Specialists == {KNOWLEDGE, RESEARCH, EXPLAINER}

\* the sub-call the event ev belongs to: its agent, or for a message the
\* specialist it is sent from or to; a message between the orchestrator and
\* the user, the router or the synthesizer belongs to no specialist's sub-call
SubCallOf(ev) ==
  IF ev.type # "message" THEN ev.agent
  ELSE IF ev.agent \in Specialists THEN ev.agent
  ELSE IF ev.to \in Specialists THEN ev.to
  ELSE ORCHESTRATOR

\* the events follow the pattern agent_start, inner events, one terminator,
\* sub-call after sub-call; `open` is the agent whose sub-call is open
RECURSIVE FollowsPattern(_, _)
FollowsPattern(events, open) ==
  IF events = <<>> THEN TRUE
  ELSE LET ev == Head(events) IN
       IF ev.type = "agent_start"
       THEN open = None /\ FollowsPattern(Tail(events), Some(ev.agent))
       ELSE IF ev.type \in {"agent_complete", "error"}
       THEN open = Some(ev.agent) /\ FollowsPattern(Tail(events), None)
       ELSE IF ev.type = "complete"
       THEN open = None /\ FollowsPattern(Tail(events), None)
       ELSE /\ \/ ev.type = "message" /\ SubCallOf(ev) = ORCHESTRATOR
               \/ open = Some(SubCallOf(ev))
            /\ FollowsPattern(Tail(events), open)

\* C22: in every stream the events of each sub-call (knowledge, research,
\* explainer, the orchestrator's synthesis) are agent_start, then message /
\* tool_call / tool_result / agent_output events, then exactly one
\* agent_complete or error of the same agent, before any other agent_start;
\* no event of the sub-call follows its terminator.
C22_SubCallEventPattern == FollowsPattern(st_events, None)

\* the generator has run to its end and every event was taken
StreamEnded == st_pc = "done" /\ st_pending = <<>>

\* the positions of the events of type `type` yielded so far
EventsOfType(type) == {i \in 1..Len(st_events) : st_events[i].type = type}

\* a sub-call of the stream failed: it yielded an error event of a specialist
SubCallFailed ==
  \E i \in EventsOfType("error") : st_events[i].agent \in Specialists

\* C23: a stream yields complete at most once and nothing after it; when
\* routing and synthesis succeeded, the stream that has ended has yielded
\* complete exactly once, as its last event, whatever the outcomes of the
\* knowledge, research and explainer sub-calls were.
C23_CompleteOnceAndLast ==
  /\ Cardinality(EventsOfType("complete")) <= 1
  /\ \A i \in EventsOfType("complete") : i = Len(st_events)
  /\ (StreamEnded /\ st_routing # None /\ st_final # None) =>
        /\ Cardinality(EventsOfType("complete")) = 1
        /\ st_events[Len(st_events)] = CompleteEvent(st_final[1])

\* a stream with a failed sub-call has ended with complete
C23_Witness ==
  /\ StreamEnded /\ st_final # None /\ SubCallFailed
  /\ st_events[Len(st_events)].type = "complete"

\* the positions of the orchestrator-level error events yielded so far
OrchestratorErrors ==
  {i \in EventsOfType("error") : st_events[i].agent = ORCHESTRATOR}

\* the router's or the synthesizer's model call of the stream raised
ModelCallRaised(i) ==
  /\ i \in 1..Len(st_outcomes)
  /\ st_calls[i].op \in ModelOps
  /\ st_outcomes[i].kind = "raise"

\* C24: when the router call or the synthesizer call of a stream raises, the
\* stream yields exactly one error event of the orchestrator, carrying the
\* exception's text, as its last event and no complete event; nothing, in
\* particular no complete, ever follows an orchestrator-level error.
C24_OrchestratorErrorEndsStream ==
  /\ Cardinality(OrchestratorErrors) <= 1
  /\ \A i \in OrchestratorErrors : i = Len(st_events)
  /\ \A i \in 1..Len(st_outcomes) :
        (StreamEnded /\ ModelCallRaised(i)) =>
           /\ st_events[Len(st_events)]
                = Event("error", ORCHESTRATOR, <<>>, st_outcomes[i].v.str)
           /\ EventsOfType("complete") = {}

\* the synthesizer's call raised after a sub-call had completed, and the
\* stream has ended
C24_Witness ==
  /\ StreamEnded
  /\ ModelCallRaised(Len(st_outcomes)) /\ st_calls[Len(st_calls)].op = "synthesize"
  /\ EventsOfType("agent_complete") # {}
  /\ OrchestratorErrors = {Len(st_events)}

\* the specialist call i of the stream failed: send_task raised
SubCallRaised(i) ==
  /\ i \in 1..Len(st_outcomes)
  /\ IsSpecialistOp(st_calls[i].op)
  /\ st_outcomes[i].kind = "raise"

\* the positions of the events of type `type` and agent `agent`
EventsOf(type, agent) == {i \in EventsOfType(type) : st_events[i].agent = agent}

StreamOps == [i \in 1..Len(st_calls) |-> st_calls[i].op]

Concatenated(chunks) == Join(<<>>, chunks)

\* C26: for every content, shorter or longer than the chunk length, with or
\* without a trailing newline, the chunks of _split_content concatenated in
\* order are the content, with no character added or lost.
C26_ChunkingLaw == spl_pc = "done" => Concatenated(spl_chunks) = spl_content

\* the chunk is one line, with or without its newline
IsSingleLine(chunk) ==
  \A i \in 1..(Len(chunk) - 1) : chunk[i] # "\n"

\* the length of the single line the chunk holds
LineLength(chunk) ==
  IF chunk # <<>> /\ chunk[Len(chunk)] = "\n" THEN Len(chunk) - 1 ELSE Len(chunk)

\* C27: _split_content never cuts inside a line (every chunk but the last
\* ends with a newline), returns no empty chunk, and every chunk is at most
\* max_length long unless it is a single line that is itself longer than
\* max_length.
C27_ChunksRespectBound ==
  spl_pc = "done" =>
     /\ \A i \in 1..(Len(spl_chunks) - 1) :
           spl_chunks[i] # <<>> /\ spl_chunks[i][Len(spl_chunks[i])] = "\n"
     /\ \A i \in 1..Len(spl_chunks) : spl_chunks[i] # <<>>
     /\ \A i \in 1..Len(spl_chunks) :
           \/ Len(spl_chunks[i]) <= spl_max_length
           \/ /\ IsSingleLine(spl_chunks[i])
              /\ LineLength(spl_chunks[i]) > spl_max_length

\* the knowledge search among the calls cs, resolved as outs, returned a
\* result that _knowledge_sufficient accepts
SearchWasSufficient(cs, outs) ==
  \E i \in 1..Len(outs) :
     /\ cs[i].op = "search"
     /\ CallContent(outs[i]).kind = "return"
     /\ _knowledge_sufficient(Some(CallContent(outs[i]).v)) = "sufficient"

\* The calls cs of a request routed by r are those of the workflow: the
\* router, the specialists of ExpectedSpecialistOps, then, unless no response
\* was collected, the synthesizer's model when it is needed and the store
\* task; with no response the answer is the fixed one.
WorkflowSequence(cs, outs, r, responses, result) ==
  LET ops == [i \in 1..Len(cs) |-> cs[i].op]
      modelCall == IF NeedsModel(responses) THEN <<"synthesize">> ELSE <<>>
      modelFailed == outs # <<>> /\ cs[Len(outs)].op = "synthesize"
                     /\ outs[Len(outs)].kind = "raise"
  IN /\ ops = <<"route">>
              \o ExpectedSpecialistOps(r, SearchWasSufficient(cs, outs))
              \o (IF responses = <<>> THEN <<>>
                  ELSE IF modelFailed THEN modelCall
                  ELSE modelCall \o <<"store">>)
     /\ responses = <<>> => result = Some(NoInfoResponse)

\* C28: a stream issues the remote calls run issues: for every routing and
\* every combination of specialist outcomes it skips research and explainer
\* when the knowledge result is sufficient, makes no synthesizer call when no
\* response was collected (answering the fixed "couldn't find" answer), and
\* sends the store task after synthesis.
C28_StreamFollowsWorkflow ==
  (StreamEnded /\ st_routing # None) =>
     WorkflowSequence(st_calls, st_outcomes, st_routing[1], st_responses, st_final)

IsSpecialistStart(ev) == ev.type = "agent_start" /\ ev.agent \in Specialists

IsSpecialistComplete(ev) == ev.type = "agent_complete" /\ ev.agent \in Specialists

\* the agents of the events, in order
EventAgents(events) == [i \in 1..Len(events) |-> events[i].agent]

\* C29: the complete event of a stream lists in agents_used, in order, every
\* specialist whose sub-call was attempted (an agent_start was yielded for
\* it), those that ended with error or returned empty content included, and
\* in sources exactly those whose sub-call succeeded.
C29_CompleteListsAttempted ==
  \A i \in EventsOfType("complete") :
     /\ st_events[i].agents_used
          = EventAgents(SelectSeq(st_events, IsSpecialistStart))
     /\ st_events[i].sources
          = EventAgents(SelectSeq(st_events, IsSpecialistComplete))

\* the stream was closed by its consumer
Cancelled == st_pc = "cancelled"

\* what a closed stream holds: nothing left to yield, no call in flight, no
\* open client, and no store task among its calls
Released ==
  /\ st_pending = <<>>
  /\ st_inflight = None
  /\ st_client = None
  /\ \A i \in 1..Len(st_calls) : st_calls[i].op # "store"

\* the step that closes the stream and every step after it add no event and
\* no call
Silent ==
  (Cancelled \/ Cancelled') =>
     /\ st_events' = st_events
     /\ st_calls' = st_calls
     /\ st_outcomes' = st_outcomes

Wrote(call, k) == call.classified.kind = "return" /\ HasKey(call.classified.v.v, k)

\* the classifier output of a logged route call leaves the key k out
Omitted(call, k) == call.classified.kind = "return" /\ ~HasKey(call.classified.v.v, k)

\* the agent names the classifier wrote, lower-cased
WrittenNames(call) ==
  LET names == DictGet(call.classified.v.v, K_agents, JList(<<>>)).v
  IN [i \in 1..Len(names) |-> Lower(names[i].v)]

AllInEnumeration(names) == \A i \in 1..Len(names) : names[i] \in AgentType

\* C31: when the classifier's output omits the agent list, route returns
\* agents == [RESEARCH]; when it omits check_knowledge_first the flag of the
\* decision is true; an agent list that is present, the empty one included,
\* is taken as given, its names matched without regard to case.
C31_RoutingDefaults ==
  \A i \in 1..Len(rt_log) :
     LET call == rt_log[i] IN
     /\ Omitted(call, K_agents) =>
          call.result.kind = "return" /\ call.result.v.agents = <<RESEARCH>>
     /\ (Omitted(call, K_check_knowledge_first) /\ call.result.kind = "return") =>
          call.result.v.check_knowledge_first = TRUE
     /\ (Wrote(call, K_agents) /\ AllInEnumeration(WrittenNames(call))) =>
          call.result.kind = "return" /\ call.result.v.agents = WrittenNames(call)

\* route was called on an output without agent list and flag, and on one
\* with a name in mixed case and no reasoning
C31_Witness ==
  /\ \E i \in 1..Len(rt_log) :
        /\ Omitted(rt_log[i], K_agents)
        /\ Omitted(rt_log[i], K_check_knowledge_first)
        /\ rt_log[i].result.v.agents = <<RESEARCH>>
  /\ \E i \in 1..Len(rt_log) :
        /\ Wrote(rt_log[i], K_agents)
        /\ rt_log[i].result = Return(RoutingDecision(<<EXPLAINER>>, DefaultReasoning, FALSE))

\* the classifier of a logged route call named an agent outside the
\* enumeration
NamedOutsider(call) ==
  Wrote(call, K_agents) /\ ~AllInEnumeration(WrittenNames(call))

\* C32: when the classifier output names an agent outside {research,
\* explainer, knowledge}, route raises and gives no RoutingDecision, not even
\* one of the recognised names; run then has no routing, makes no specialist
\* call and returns "Error: Routing failed: ..." with no sources and no
\* agents; and every RoutingDecision that route gives holds members of the
\* enumeration only.
C32_UnknownAgentIsFatal ==
  \A i \in 1..Len(rt_log) :
     LET call == rt_log[i] IN
     /\ call.result.kind = "return" => AllInEnumeration(call.result.v.agents)
     /\ NamedOutsider(call) =>
          /\ call.result.kind = "raise"
          /\ routing = None
          /\ error = Some(RoutingFailedPrefix \o call.result.v.str)
          /\ Ops = <<"route">>
          /\ pc \in {"END", "returned"}
          /\ pc = "returned" =>
               response = Some(SynthesizedResponse(
                            ErrorPrefix \o RoutingFailedPrefix \o call.result.v.str,
                            <<>>, <<>>))

\* a run whose classifier named research and coder has returned the error
\* answer that quotes the name
C32_Witness ==
  /\ pc = "returned"
  /\ Len(rt_log) = 1 /\ NamedOutsider(rt_log[1])
  /\ response[1].answer
       = ErrorPrefix \o RoutingFailedPrefix \o <<"'">> \o Coder \o NotValidAgentType

ErrorCode(reply) == DictGet(DictGet(reply.v, K_error, JDict(<<>>)).v, K_code, JNull)

\* a tasks/send body without a query text: no first part, no text or the
\* empty text in it
LacksQuery(body) ==
  /\ DictGet(body.v, K_method, JStr(<<>>)) = JStr(TasksSend)
  /\ RequestQuery(DictGet(body.v, K_params, JDict(<<>>))) = Return(JStr(<<>>))

\* a tasks/send body whose params, message, parts or text are of the wrong
\* type
Malformed(body) ==
  /\ DictGet(body.v, K_method, JStr(<<>>)) = JStr(TasksSend)
  /\ LET q == RequestQuery(DictGet(body.v, K_params, JDict(<<>>)))
     IN q.kind = "raise" \/ q.v.t # "str"

\* C34: the /a2a handler answers a request with one JSON-RPC 2.0 envelope
\* that carries either result or error, never both, and the id of the
\* request; a tasks/send without query text, or with a malformed envelope,
\* is answered with error -32602 without invoking the agent; an unknown
\* method is answered with -32601.
C34_HandlerAnswersWithEnvelope ==
  srv_pc = "replied" =>
     LET reply == srv_reply[1]
         method == DictGet(srv_body.v, K_method, JStr(<<>>))
     IN /\ DictGet(reply.v, K_jsonrpc, JNull) = JStr(JsonRpcVersion)
        /\ HasKey(reply.v, K_result) # HasKey(reply.v, K_error)
        /\ DictGet(reply.v, K_id, JNull) = DictGet(srv_body.v, K_id, JStr(DefaultId))
        /\ (LacksQuery(srv_body) \/ Malformed(srv_body)) =>
             ErrorCode(reply) = JInt(INVALID_PARAMS) /\ calls = <<>>
        /\ method \notin {JStr(TasksSend), JStr(TasksGet)} =>
             ErrorCode(reply) = JInt(METHOD_NOT_FOUND) /\ calls = <<>>

\* the envelope of a success with the text s
TextEnvelope(s, i) ==
  JDict(<< <<K_jsonrpc, JStr(JsonRpcVersion)>>,
           <<K_result,
             JDict(<< <<K_message,
                        JDict(<< <<K_role, JStr(Assistant)>>,
                                 <<K_parts, JList(<<JDict(<< <<K_text, JStr(s)>> >>)>>)>> >>)>> >>)>>,
           <<K_id, JStr(i)>> >>)

\* C35: for every text s and request id i, create_a2a_response(s, i) is
\* {jsonrpc: "2.0", result: {message: {role: "assistant", parts: [{text:
\* s}]}}, id: i} and the orchestrator's _extract_content reads exactly s out
\* of it; a result that is a dict is placed in the envelope unchanged.
C35_EnvelopeRoundTrip ==
  /\ (env_pc \in {"created", "extracted"} /\ env_result.t = "str") =>
       env_envelope = TextEnvelope(env_result.v, env_id)
  /\ (env_pc \in {"created", "extracted"} /\ env_result.t = "dict") =>
       env_envelope = JDict(<< <<K_jsonrpc, JStr(JsonRpcVersion)>>,
                               <<K_result, env_result>>,
                               <<K_id, JStr(env_id)>> >>)
  /\ (env_pc = "extracted" /\ env_result.t = "str") => env_content = env_result

\* a text with a quote and a line break went through the envelope and came
\* back
C35_Witness ==
  /\ env_pc = "extracted"
  /\ env_result = JStr(<<"a", "'", "\n">>)
  /\ env_id = RequestId7
  /\ env_content = env_result

\* the ended calls of the operation op, by their place in the log
EndedCalls(op) == {i \in 1..Len(tm_hist) : tm_hist[i].op = op}

\* one TokenManager object exists at most, and every initialize returned it
OneInstance ==
  /\ Len(tm_objs) <= 1
  /\ \A i \in EndedCalls("initialize") : tm_hist[i].ret = Return(1)

\* a step replaces no token lock, discards no cached token and changes no
\* settings of an initialised object
InitialisedOnce ==
  \A i \in 1..Len(tm_objs) :
     /\ tm_objs[i].token_lock # 0 =>
          tm_objs'[i].token_lock = tm_objs[i].token_lock
     /\ tm_objs[i].cached_token # None => tm_objs'[i].cached_token # None
     /\ tm_objs[i].initialized => tm_objs'[i].settings = tm_objs[i].settings

\* C36: under every interleaving of concurrent TokenManager(settings) and
\* initialize(settings) calls one instance is created and every call returns
\* it, and its state is initialised once: no later or concurrent initialiser
\* replaces the token lock, discards a cached token or changes the settings.
C36_ThreadSafeSingleton == []OneInstance /\ [][InitialisedOnce]_vars

\* a token is cached and now < expires_at - 600 s
Fresh(obj, now) ==
  /\ obj.cached_token # None
  /\ now < obj.cached_token[1].expires_at - 600

\* the tokens that get_token calls, ended or under way, have fetched
FetchedByCalls ==
  {tm_hist[i].got : i \in EndedCalls("get_token")}
  \cup {tm_thread[t].got : t \in Threads}

\* C37: get_token returns the cached token without contacting the credential
\* iff a token is cached and now < expires_at - 600 s, and otherwise fetches
\* one new token, caches it and returns it.  Under every interleaving of
\* get_token calls on one initialised instance a caller is about to refresh
\* only while the cache is not fresh, so callers that meet an expired cache
\* together cause one refresh, and every call returns a token that passed
\* the validity check or that it has just fetched.
C37_GetTokenIsAtomic ==
  /\ \A t \in Threads :
        /\ TmAt(t, "gt_refresh") => ~Fresh(TmSelf(t), tm_now)
        /\ TmAt(t, "gt_return") =>
             /\ TmSelf(t).cached_token # None
             /\ tm_thread[t].hit <=> tm_thread[t].got = 0
             /\ ~tm_thread[t].hit =>
                  TmSelf(t).cached_token[1].token = tm_thread[t].got
  /\ \A i \in EndedCalls("get_token") :
        tm_hist[i].ret.kind = "return" =>
           /\ tm_hist[i].hit <=> tm_hist[i].got = 0
           /\ tm_hist[i].ret.v = tm_hist[i].cached[1].token
           /\ ~tm_hist[i].hit => tm_hist[i].ret.v = tm_hist[i].got
  /\ FetchedByCalls \ {0} = 1..tm_fetched

\* two threads called get_token at the same time on an empty cache: one
\* fetched a token good for 1200 s, the other returned that token without
\* a fetch; after the token had aged a later call fetched a new one
C37_Witness ==
  /\ Len(tm_hist) >= 4
  /\ tm_hist[2].op = "get_token" /\ tm_hist[3].op = "get_token"
  /\ tm_hist[2].thread # tm_hist[3].thread
  /\ tm_hist[2].got = 1 /\ tm_hist[2].ret = Return(1)
  /\ tm_hist[3].hit /\ tm_hist[3].ret = Return(1)
  /\ tm_hist[4].got = 2 /\ tm_hist[4].ret = Return(2)
  /\ tm_now = 2 * TickSeconds

\* the ended call c returned the value x
Returned(c, x) == c.ret.kind = "return" /\ c.ret.v = x

\* the place in the log of the last reset before the call i, 0 if none
LastReset(i) ==
  LET resets == {j \in EndedCalls("reset") : j < i}
  IN IF resets = {} THEN 0
     ELSE CHOOSE j \in resets : \A k \in resets : k <= j

\* the initialize calls between the last reset before the call i and i
InitsSince(i) == {k \in EndedCalls("initialize") : LastReset(i) < k /\ k < i}

\* C38: over every sequence of initialize, get_instance and reset calls,
\* get_instance raises RuntimeError exactly when no instance exists (before
\* the first initialize, or after a reset with no initialize since), and
\* otherwise returns the instance of the initialize calls since the last
\* reset; the first initialize after a reset creates a new instance with no
\* cached token.
C38_InstanceLifecycle ==
  /\ \A i \in EndedCalls("get_instance") :
        /\ tm_hist[i].ret.kind = "raise" <=> InitsSince(i) = {}
        /\ tm_hist[i].ret.kind = "raise" => tm_hist[i].ret = Raise(NotInitializedMsg)
        /\ \A k \in InitsSince(i) : Returned(tm_hist[i], tm_hist[k].ret.v)
  /\ \A k \in EndedCalls("initialize") :
        InitsSince(k) = {} =>
           /\ tm_hist[k].cached = None
           /\ \A j \in EndedCalls("initialize") :
                 j < k => ~Returned(tm_hist[j], tm_hist[k].ret.v)

\* initialize, get_token, reset, initialize, get_instance: the second
\* initialize made a second instance with no cached token, and get_instance
\* returned it
C38_Witness ==
  /\ Len(tm_hist) = 5
  /\ tm_hist[1].op = "initialize" /\ Returned(tm_hist[1], 1)
  /\ tm_hist[2].op = "get_token" /\ Returned(tm_hist[2], 1)
  /\ tm_hist[3].op = "reset"
  /\ tm_hist[4].op = "initialize" /\ Returned(tm_hist[4], 2)
  /\ tm_hist[4].cached = None
  /\ tm_hist[5].op = "get_instance" /\ Returned(tm_hist[5], 2)

\* C39: the research output reaches the explainer's explanation.  For the
\* text the orchestrator sends, made of the query q, the separator and the
\* research result c, the explainer's handler recovers q exactly, also when
\* q itself holds the separator text, and the explanation is generated from
\* both q and c: explain is called with q and with a context that holds c,
\* and the prompt it builds holds both.
C39_ContextReachesExplanation ==
  /\ ex_pc \in {"parsed", "explained"} => ex_query = ex_q
  /\ ex_pc = "explained" =>
       /\ ex_call.query = ex_q
       /\ Contains(ex_call.context, ex_c)
       /\ Contains(ex_prompt, ex_q)
       /\ Contains(ex_prompt, ex_c)

\* C40: in the knowledge specialist a task that starts, in any case, with
\* 'store' is handled as a store and every other task as a search, so the
\* orchestrator's 'Store this research finding: ...' task stores and its
\* 'Search for relevant information about: Q' task searches; and in the
\* search handler every prefix of the clean-up list is effective: a task
\* that starts with 'search for relevant information about:' has that whole
\* prefix removed, so the orchestrator's task searches the knowledge base
\* with exactly Q.
C40_KnowledgeDispatchAndCleanUp ==
  /\ kn_pc \in {"dispatched", "handled"} =>
       /\ kn_handler = "store" <=> StartsWith(Lower(kn_task), StoreWord)
       /\ kn_handler \in {"store", "search"}
       /\ kn_origin.by = "store" => kn_handler = "store"
       /\ kn_origin.by = "check" => kn_handler = "search"
  /\ kn_pc = "handled" =>
       /\ kn_handler = "store" <=> kn_store # None
       /\ kn_handler = "search" <=> kn_search # None
       /\ (kn_handler = "search"
             /\ StartsWith(Lower(kn_task), SearchForRelevant)) =>
            kn_search =
              Some(Strip(DropFirst(kn_task, Len(SearchForRelevant))))
       /\ kn_origin.by = "check" => kn_search = Some(kn_q)

=============================================================================
